---- MODULE Spec2Model ----
(***************************************************************************)
(* A model of the normalization -> deduplication -> staleness-tracking     *)
(* pipeline of local-event-search.                                         *)
(*                                                                         *)
(*   venue-status-manager  VenueStatusManager   (status tracker)           *)
(*   deduplicator          EventDeduplicator                               *)
(*   event-normalizer      EventNormalizer                                 *)
(*   date-parser           DateParser                                      *)
(*   base-scraper          BaseScraper.scrape   (per-record loop)          *)
(*   cli scrape command    the run driver                                  *)
(*                                                                         *)
(* Time.  A JavaScript Date is an instant in milliseconds.  The model      *)
(* counts instants in hours, written so that instant 0 is a local          *)
(* midnight; every duration the code uses is a multiple of the unit or is  *)
(* compared after a floor division by one day.  An ISO string produced by  *)
(* Date.toISOString and read back by new Date(..) denotes the same         *)
(* instant, so stored timestamps are kept as instants.                     *)
(*                                                                         *)
(* Strings that the code inspects character by character (titles, venue    *)
(* names) are sequences of one-character strings.                          *)
(***************************************************************************)
EXTENDS Integers, Sequences, FiniteSets, TLC

VARIABLES
    venues,      \* statusFile.venues of the VenueStatusManager: venue id -> VenueStatus
    clock,       \* the wall clock read by new Date()
    scrapeLog,   \* history variable: per venue id, every summary passed to updateHistory
    lastCall,    \* history variable: <<>> or <<the latest updateVenueStatus call>>
    failures,    \* history variable: per venue id, how many of its latest scrapes in a row failed
    staleStatus, \* the VenueStatus handed to analyzeVenueStaleness
    staleAsOf,   \* the asOfDate handed to analyzeVenueStaleness
    staleReport, \* <<>> or <<the StalenessReport it returned>>
    ddInput,     \* the list of events handed to deduplicate
    ddOutput,    \* what deduplicate returned for ddInput
    ddAgain,     \* what deduplicate returned for ddOutput
    ddStage,     \* "input", "once" (ddOutput is set) or "twice" (ddAgain is set)
    rawEvents,   \* BaseScraper.scrape: the raw records parseEvents returns for the venue
    config,      \* the VenueConfig of the scraper
    position,    \* "ready", "loop" (inside the for loop of scrape) or "done"
    processed,   \* the number of raw records the loop has been through
    scraped,     \* the local events of scrape: the events normalized so far
    warnings,    \* the local warnings of scrape
    outcomes,    \* history variable: what normalizeEvent returned, record by record
    prevRun,     \* history variable: <<>> or the config and outcomes of the scrape before
    callArgs,    \* the arguments of a call of one function on its own
    callResult,  \* <<>> or <<what that call returned>>
    logged,      \* the warnings the date parser and the normalizer gave the logger
    disk,        \* the durable status store, output/venue-status.json
    loaded,      \* this.statusFile of the VenueStatusManager is set (venues holds it)
    outputFiles, \* <<>> or <<the events in the output files>>
    run,         \* the scrape command in progress: its place, options and locals
    lastSaved    \* history variable: the store as the last completed save left it

trackerVars == <<venues, clock, scrapeLog, lastCall, failures>>

staleVars == <<staleStatus, staleAsOf, staleReport>>

dedupVars == <<ddInput, ddOutput, ddAgain, ddStage>>

scrapeVars == <<rawEvents, config, position, processed, scraped, warnings, outcomes, prevRun>>

callVars == <<callArgs, callResult, logged>>

runVars == <<disk, loaded, outputFiles, run, lastSaved>>

vars == <<trackerVars, staleVars, dedupVars, scrapeVars, callVars, runVars>>

----------------------------------------------------------------------------
(* null / undefined, and a present optional value *)
NULL == <<>>

Some(x) == <<x>>

Min(a, b) == IF a <= b THEN a ELSE b

MaxOf(S) == CHOOSE x \in S : \A y \in S : y <= x

MinOf(S) == CHOOSE x \in S : \A y \in S : x <= y

Range(s) == {s[i] : i \in DOMAIN s}

----------------------------------------------------------------------------
(* Strings as sequences of characters *)

UpperCase == <<"A", "B", "C", "D", "E", "F", "G", "H", "I", "J", "K", "L", "M",
               "N", "O", "P", "Q", "R", "S", "T", "U", "V", "W", "X", "Y", "Z">>

LowerCase == <<"a", "b", "c", "d", "e", "f", "g", "h", "i", "j", "k", "l", "m",
               "n", "o", "p", "q", "r", "s", "t", "u", "v", "w", "x", "y", "z">>

Digits == {"0", "1", "2", "3", "4", "5", "6", "7", "8", "9"}

(* the regular expression class \s, as far as the model's texts go *)
IsWhitespace(c) == c \in {" ", "\t", "\n"}

(* the class [a-z0-9] *)
IsLowerAlnum(c) == c \in Range(LowerCase) \cup Digits

toLowerCaseChar(c) ==
    IF \E i \in DOMAIN UpperCase : UpperCase[i] = c
    THEN LowerCase[CHOOSE i \in DOMAIN UpperCase : UpperCase[i] = c]
    ELSE c

(* String.prototype.toLowerCase *)
toLowerCase(str) == [i \in DOMAIN str |-> toLowerCaseChar(str[i])]

(* replace(/\s+/g, ' '): every run of whitespace becomes one blank *)
RECURSIVE collapseWhitespace(_)
collapseWhitespace(str) ==
    IF str = <<>> THEN <<>>
    ELSE LET rest == collapseWhitespace(Tail(str))
         IN IF IsWhitespace(Head(str))
            THEN IF Len(str) > 1 /\ IsWhitespace(str[2]) THEN rest ELSE <<" ">> \o rest
            ELSE <<Head(str)>> \o rest

(* String.prototype.trim *)
RECURSIVE trimStart(_)
trimStart(str) ==
    IF str # <<>> /\ IsWhitespace(Head(str)) THEN trimStart(Tail(str)) ELSE str

RECURSIVE trimEnd(_)
trimEnd(str) ==
    IF str # <<>> /\ IsWhitespace(str[Len(str)])
    THEN trimEnd(SubSeq(str, 1, Len(str) - 1))
    ELSE str

trim(str) == trimEnd(trimStart(str))

----------------------------------------------------------------------------
(* Dates.  The process is taken to run in UTC, so that local and UTC calendar
   days coincide.  An ISO string "yyyy-mm-ddThh:..Z" is the pair of its day
   (the text before the 'T') and its time of day. *)

(* Date.prototype.toISOString *)
toISOString(t) == [day |-> t \div 24, time |-> t % 24]

(* new Date(isoString).getTime() *)
dateOf(iso) == iso.day * 24 + iso.time

----------------------------------------------------------------------------
(* deduplicator *)

normalizeString(str) ==
    LET kept(c) == IsLowerAlnum(c) \/ IsWhitespace(c)
    IN trim(collapseWhitespace(SelectSeq(toLowerCase(str), kept)))

getFingerprint(event) ==
    [normalizedTitle |-> normalizeString(event.title),
     date            |-> event.date.day,
     venue           |-> normalizeString(event.venue.name)]

(* a bug fingerprintKey could have: the date is left out of the key *)
fingerprintKeyNoDate(fp) == <<fp.normalizedTitle, fp.venue>>

(* `${normalizedTitle}|${date}|${venue}`: the normalized parts hold no '|', so
   the string and the triple determine each other *)
fingerprintKey(fp) == <<fp.normalizedTitle, fp.date, fp.venue>>

(* the completeness score, in hundredths *)
score(event) ==
      (IF event.description # <<>> THEN Len(event.description) ELSE 0)
    + (IF event.startTime # <<>> THEN 100 ELSE 0)
    + (IF event.endTime # "" THEN 100 ELSE 0)
    + (IF event.url # "" THEN 100 ELSE 0)
    + (IF event.imageUrl # "" THEN 100 ELSE 0)
    + (IF event.price # "" THEN 50 ELSE 0)
    + (IF Len(event.tags) > 0 THEN 50 ELSE 0)
    + event.confidence

(* Array.prototype.sort with (a, b) => b.score - a.score: stable, descending *)
RECURSIVE sortByScore(_)
sortByScore(events) ==
    IF events = <<>> THEN <<>>
    ELSE LET sorted == sortByScore(SubSeq(events, 1, Len(events) - 1))
             x == events[Len(events)]
             \* x goes behind every element that does not score less
             n == Cardinality({i \in DOMAIN sorted : score(sorted[i]) >= score(x)})
         IN SubSeq(sorted, 1, n) \o <<x>> \o SubSeq(sorted, n + 1, Len(sorted))

(* a bug selectBestEvent could have: the last of the best scored is taken *)
selectBestEventLastOfTies(events) ==
    LET best == MaxOf({score(events[i]) : i \in DOMAIN events})
    IN events[MaxOf({i \in DOMAIN events : score(events[i]) = best})]

selectBestEvent(events) == sortByScore(events)[1]

(* the Map `seen` as the sequence of its entries in insertion order *)
RECURSIVE groupByFingerprint(_)
groupByFingerprint(events) ==
    IF events = <<>> THEN <<>>
    ELSE LET seen == groupByFingerprint(SubSeq(events, 1, Len(events) - 1))
             event == events[Len(events)]
             key == fingerprintKey(getFingerprint(event))
         IN IF \E i \in DOMAIN seen : seen[i].key = key
            THEN [i \in DOMAIN seen |->
                     IF seen[i].key = key
                     THEN [seen[i] EXCEPT !.group = Append(@, event)]
                     ELSE seen[i]]
            ELSE Append(seen, [key |-> key, group |-> <<event>>])

(* a bug deduplicate could have: the survivors are collected with unshift *)
deduplicateReversed(events) ==
    LET seen == groupByFingerprint(events)
    IN [i \in DOMAIN seen |-> selectBestEvent(seen[Len(seen) + 1 - i].group)]

deduplicate(events) ==
    LET seen == groupByFingerprint(events)
    IN [i \in DOMAIN seen |-> selectBestEvent(seen[i].group)]

(* String.prototype.split(' '): the pieces between the blanks, in order *)
RECURSIVE split(_)
split(str) ==
    IF \A i \in DOMAIN str : str[i] # " " THEN <<str>>
    ELSE LET blank == MinOf({i \in DOMAIN str : str[i] = " "})
         IN <<SubSeq(str, 1, blank - 1)>> \o split(SubSeq(str, blank + 1, Len(str)))

(* the Jaccard index of the title words as the fraction num / den; 0 when the
   venues or the days differ *)
calculateSimilarity(a, b) ==
    IF a.venue # b.venue \/ a.date # b.date THEN [num |-> 0, den |-> 1]
    ELSE LET wordsA == Range(split(a.normalizedTitle))
             wordsB == Range(split(b.normalizedTitle))
         IN [num |-> Cardinality(wordsA \cap wordsB),
             den |-> Cardinality(wordsA \cup wordsB)]

(* a bug findSimilar could have: a similarity equal to the threshold is not enough *)
findSimilarAboveThreshold(event, events, threshold) ==
    LET fp == getFingerprint(event)
        limit == IF threshold = NULL THEN 80 ELSE threshold[1]
        keep(other) ==
            /\ event.id # other.id
            /\ LET similarity == calculateSimilarity(fp, getFingerprint(other))
               IN similarity.num * 100 > limit * similarity.den
    IN SelectSeq(events, keep)

(* findSimilar(event, events, threshold): threshold is <<>> when the argument
   is left out and <<hundredths>> otherwise *)
findSimilar(event, events, threshold) ==
    LET fp == getFingerprint(event)
        limit == IF threshold = NULL THEN 80 ELSE threshold[1]
        keep(other) ==
            /\ event.id # other.id
            /\ LET similarity == calculateSimilarity(fp, getFingerprint(other))
               IN similarity.num * 100 >= limit * similarity.den
    IN SelectSeq(events, keep)

----------------------------------------------------------------------------
(* date-parser.  A date text is held as what it says:
     kind "iso"          an ISO-8601 text of the instant `at`
     kind "monthDayYear" a month, a day and a four-digit year ("January 5, 2026")
     kind "monthDay"     a month and a day without a year ("January 5", "1/5")
     kind "today", "tomorrow"
     kind "weekday"      a weekday name, bare or after "this", "next" or "every"
     kind "other"        a text no rule matches ("TBA")
   The calendar has years of 365 days; day 0 is a Sunday and the first day of
   year 0; dayOfYear counts from 0. *)

DateText(kind, qualifier, weekday, year, dayOfYear, at) ==
    [kind |-> kind, qualifier |-> qualifier, weekday |-> weekday,
     year |-> year, dayOfYear |-> dayOfYear, at |-> at]

IsoText(at) == DateText("iso", "", 0, 0, 0, at)

MonthDayYearText(year, dayOfYear) == DateText("monthDayYear", "", 0, year, dayOfYear, 0)

MonthDayText(dayOfYear) == DateText("monthDay", "", 0, 0, dayOfYear, 0)

TodayText == DateText("today", "", 0, 0, 0, 0)

TomorrowText == DateText("tomorrow", "", 0, 0, 0, 0)

WeekdayText(qualifier, weekday) == DateText("weekday", qualifier, weekday, 0, 0, 0)

OtherText == DateText("other", "", 0, 0, 0, 0)

(* Date.prototype.getFullYear, getDay *)
getFullYear(t) == (t \div 24) \div 365

getDay(t) == (t \div 24) % 7

(* the local midnight that starts the given day of the given year: what
   date-fns parse returns for a text without a time of day *)
midnightOf(year, dayOfYear) == (year * 365 + dayOfYear) * 24

(* date-fns addDays, addWeeks, nextDay *)
addDays(t, n) == t + n * 24

addWeeks(t, n) == addDays(t, 7 * n)

(* a bug nextDay could have: the day of t itself counts as the next one *)
nextDayOrToday(t, day) ==
    LET delta == day - getDay(t)
    IN addDays(t, IF delta < 0 THEN delta + 7 ELSE delta)

nextDay(t, day) ==
    LET delta == day - getDay(t)
    IN addDays(t, IF delta <= 0 THEN delta + 7 ELSE delta)

(* a text that contains a weekday name is matched by the first pattern,
   /(next|this)?\s*(monday|...)/, whatever precedes the name; the "every"
   pattern behind it gives nextDay(reference, day) as well *)
parseRelativeDate(dateStr, reference) ==
    IF dateStr.kind = "today" THEN Some(reference)
    ELSE IF dateStr.kind = "tomorrow" THEN Some(addDays(reference, 1))
    ELSE IF dateStr.kind = "weekday"
         THEN LET result == nextDay(reference, dateStr.weekday)
              IN IF dateStr.qualifier = "next"
                 THEN Some(addWeeks(result, 1))
                 ELSE Some(result)
    ELSE NULL

(* parseDate(dateStr, referenceDate): reference is referenceDate || new Date(),
   now is the new Date() read inside the year-less branch; <<>> is null *)
parseDate(dateStr, reference, now) ==
    IF dateStr.kind = "iso" THEN Some(dateStr.at)
    ELSE IF dateStr.kind = "monthDayYear"
         THEN Some(midnightOf(dateStr.year, dateStr.dayOfYear))
    ELSE IF dateStr.kind = "monthDay"
         THEN LET parsed == midnightOf(getFullYear(reference), dateStr.dayOfYear)
              IN IF parsed < now
                 THEN Some(midnightOf(getFullYear(now) + 1, dateStr.dayOfYear))
                 ELSE Some(parsed)
    ELSE parseRelativeDate(dateStr, reference)

(* what parseDate gives the logger: logger.warn(`Could not parse date: ...`)
   before it returns null for a text no rule matches *)
parseDateLogs(dateStr, reference, now) ==
    IF parseDate(dateStr, reference, now) = NULL
    THEN <<"Could not parse date">>
    ELSE <<>>

WeekdayNames ==
    <<<<"s", "u", "n", "d", "a", "y">>,
      <<"m", "o", "n", "d", "a", "y">>,
      <<"t", "u", "e", "s", "d", "a", "y">>,
      <<"w", "e", "d", "n", "e", "s", "d", "a", "y">>,
      <<"t", "h", "u", "r", "s", "d", "a", "y">>,
      <<"f", "r", "i", "d", "a", "y">>,
      <<"s", "a", "t", "u", "r", "d", "a", "y">>>>

(* of the texts held here only "every <weekday>" has a recurrence pattern *)
detectRecurringPattern(dateStr) ==
    IF dateStr.kind = "weekday" /\ dateStr.qualifier = "every"
    THEN <<"w", "e", "e", "k", "l", "y", ":">> \o WeekdayNames[dateStr.weekday + 1]
    ELSE NULL

(* String.prototype.toUpperCase *)
toUpperCaseChar(c) ==
    IF \E i \in DOMAIN LowerCase : LowerCase[i] = c
    THEN UpperCase[CHOOSE i \in DOMAIN LowerCase : LowerCase[i] = c]
    ELSE c

toUpperCase(str) == [i \in DOMAIN str |-> toUpperCaseChar(str[i])]

(* trim, upper case, one blank for every run of whitespace, no dots *)
cleanTimeString(timeStr) ==
    SelectSeq(collapseWhitespace(toUpperCase(trim(timeStr))), LAMBDA c : c # ".")

DigitChars == <<"0", "1", "2", "3", "4", "5", "6", "7", "8", "9">>

(* parseInt of one digit *)
digitValue(c) == (CHOOSE n \in DOMAIN DigitChars : DigitChars[n] = c) - 1

(* What is read from the cleaned text str at the digit at place i: one or two
   digits of hours, then ':' and minutes if at least minuteDigits (and at most
   two) digits follow the colon, then blanks, then AM or PM.  `end` is the
   place after the period, or after the minutes when there is no period. *)
scanTime(str, i, minuteDigits) ==
    LET at(k) == IF k \in DOMAIN str THEN str[k] ELSE ""
        hourLen == IF at(i + 1) \in Digits THEN 2 ELSE 1
        hours == IF hourLen = 2
                 THEN 10 * digitValue(at(i)) + digitValue(at(i + 1))
                 ELSE digitValue(at(i))
        j == i + hourLen
        minuteLen == IF at(j) = ":" /\ at(j + 1) \in Digits
                     THEN (IF at(j + 2) \in Digits THEN 2 ELSE 1)
                     ELSE 0
        hasMinutes == minuteLen > 0 /\ minuteLen >= minuteDigits
        minutes == IF ~hasMinutes THEN 0
                   ELSE IF minuteLen = 2
                        THEN 10 * digitValue(at(j + 1)) + digitValue(at(j + 2))
                        ELSE digitValue(at(j + 1))
        k == IF hasMinutes THEN j + 1 + minuteLen ELSE j
        blanks == IF IsWhitespace(at(k)) THEN 1 ELSE 0
        period == IF at(k + blanks) \in {"A", "P"} /\ at(k + blanks + 1) = "M"
                  THEN at(k + blanks)
                  ELSE ""
    IN [hours |-> hours, hasMinutes |-> hasMinutes, minutes |-> minutes,
        blanks |-> blanks, period |-> period,
        end |-> IF period # "" THEN k + blanks + 2 ELSE k]

(* pm adds 12 to the hour unless it is 12, am maps 12 to 0 *)
to24Hours(hours, period) ==
    IF period = "P" /\ hours # 12 THEN hours + 12
    ELSE IF period = "A" /\ hours = 12 THEN 0
    ELSE hours

(* parseTime: the TIME_FORMATS of date-fns ('h:mm a', 'hh:mm a', 'H:mm', 'HH:mm',
   'h a', 'ha', 'h:mma', 'hh:mma'), which must match the whole cleaned text with
   an hour of 1..12 before a period and of 0..23 without one, and then the
   pattern /(\d{1,2})(?::(\d{2}))?\s*(am|pm)?/i at the first digit of the text.
   <<>> is null. *)
parseTime(timeStr) ==
    IF timeStr = <<>> THEN NULL
    ELSE LET cleanedTime == cleanTimeString(timeStr)
             first == {i \in DOMAIN cleanedTime : cleanedTime[i] \in Digits}
             f == scanTime(cleanedTime, 1, 1)
             formatMatches ==
                 /\ 1 \in first
                 /\ f.end = Len(cleanedTime) + 1
                 /\ f.minutes <= 59
                 /\ IF f.period # ""
                    THEN f.hours \in 1..12
                    ELSE f.hasMinutes /\ f.hours <= 23
         IN IF formatMatches
            THEN Some([hours |-> to24Hours(f.hours, f.period), minutes |-> f.minutes])
            ELSE IF first = {} THEN NULL
            ELSE LET m == scanTime(cleanedTime, MinOf(first), 2)
                 IN Some([hours |-> to24Hours(m.hours, m.period),
                          minutes |-> m.minutes])

----------------------------------------------------------------------------
(* event-normalizer *)

EVENT_TYPE_KEYWORDS ==
    <<
     [type |-> "trivia",
      keywords |-> <<
          <<"t", "r", "i", "v", "i", "a">>,
          <<"q", "u", "i", "z">>,
          <<"g", "a", "m", "e", " ", "n", "i", "g", "h", "t">>,
          <<"p", "u", "b", " ", "q", "u", "i", "z">>>>],
     [type |-> "music",
      keywords |-> <<
          <<"m", "u", "s", "i", "c">>,
          <<"l", "i", "v", "e", " ", "b", "a", "n", "d">>,
          <<"c", "o", "n", "c", "e", "r", "t">>,
          <<"d", "j">>,
          <<"a", "c", "o", "u", "s", "t", "i", "c">>,
          <<"o", "p", "e", "n", " ", "m", "i", "c">>,
          <<"k", "a", "r", "a", "o", "k", "e">>,
          <<"b", "i", "n", "g", "o">>>>],
     [type |-> "food",
      keywords |-> <<
          <<"f", "o", "o", "d">>,
          <<"d", "i", "n", "n", "e", "r">>,
          <<"b", "r", "u", "n", "c", "h">>,
          <<"l", "u", "n", "c", "h">>,
          <<"f", "o", "o", "d", " ", "t", "r", "u", "c", "k">>,
          <<"b", "b", "q">>,
          <<"t", "a", "c", "o">>,
          <<"b", "u", "r", "g", "e", "r">>>>],
     [type |-> "wine",
      keywords |-> <<
          <<"w", "i", "n", "e">>,
          <<"v", "i", "n", "o">>,
          <<"s", "o", "m", "m", "e", "l", "i", "e", "r">>,
          <<"v", "i", "n", "e", "y", "a", "r", "d">>,
          <<"w", "i", "n", "e", " ", "t", "a", "s", "t", "i", "n", "g">>>>],
     [type |-> "beer",
      keywords |-> <<
          <<"b", "e", "e", "r">>,
          <<"b", "r", "e", "w">>,
          <<"a", "l", "e">>,
          <<"i", "p", "a">>,
          <<"l", "a", "g", "e", "r">>,
          <<"s", "t", "o", "u", "t">>,
          <<"t", "a", "p", " ", "t", "a", "k", "e", "o", "v", "e", "r">>>>],
     [type |-> "paint",
      keywords |-> <<
          <<"p", "a", "i", "n", "t">>,
          <<"a", "r", "t">>,
          <<"c", "a", "n", "v", "a", "s">>,
          <<"s", "i", "p", " ", "a", "n", "d", " ", "p", "a", "i", "n", "t">>,
          <<"p", "a", "i", "n", "t", " ", "&", " ", "s", "i", "p">>>>],
     [type |-> "comedy",
      keywords |-> <<
          <<"c", "o", "m", "e", "d", "y">>,
          <<"s", "t", "a", "n", "d", "-", "u", "p">>,
          <<"s", "t", "a", "n", "d", "u", "p">>,
          <<"c", "o", "m", "e", "d", "i", "a", "n">>,
          <<"i", "m", "p", "r", "o", "v">>>>],
     [type |-> "tasting",
      keywords |-> <<
          <<"t", "a", "s", "t", "i", "n", "g">>,
          <<"f", "l", "i", "g", "h", "t">>,
          <<"s", "a", "m", "p", "l", "i", "n", "g">>>>],
     [type |-> "workshop",
      keywords |-> <<
          <<"w", "o", "r", "k", "s", "h", "o", "p">>,
          <<"c", "l", "a", "s", "s">>,
          <<"l", "e", "a", "r", "n">>,
          <<"e", "d", "u", "c", "a", "t", "i", "o", "n">>,
          <<"s", "e", "m", "i", "n", "a", "r">>>>],
     [type |-> "special",
      keywords |-> <<
          <<"s", "p", "e", "c", "i", "a", "l">>,
          <<"h", "o", "l", "i", "d", "a", "y">>,
          <<"c", "e", "l", "e", "b", "r", "a", "t", "i", "o", "n">>,
          <<"a", "n", "n", "i", "v", "e", "r", "s", "a", "r", "y">>,
          <<"g", "r", "a", "n", "d", " ", "o", "p", "e", "n", "i", "n", "g">>>>],
     [type |-> "recurring",
      keywords |-> <<>>],
     [type |-> "other",
      keywords |-> <<>>]
    >>

(* the places at which word occurs in text *)
occurrences(text, word) ==
    {i \in 1..(Len(text) - Len(word) + 1) : SubSeq(text, i, i + Len(word) - 1) = word}

(* String.prototype.includes *)
includes(text, keyword) == occurrences(text, keyword) # {}

(* a bug generateEventId could have: the title is not lowercased *)
generateEventIdCaseSensitive(title, date, venue) ==
    LET alnum(c) == IsLowerAlnum(c) \/ c \in Range(UpperCase)
    IN <<SelectSeq(title, alnum), date, SelectSeq(toLowerCase(venue), IsLowerAlnum)>>

(* 'evt-' and the first 8 hex digits of the md5 of
   `${normalizedTitle}-${date}-${normalizedVenue}`.  The hash is taken to be
   injective; the normalized parts hold no '-', so the hashed string and the
   triple determine each other. *)
generateEventId(title, date, venue) ==
    LET normalizedTitle == SelectSeq(toLowerCase(title), IsLowerAlnum)
        normalizedVenue == SelectSeq(toLowerCase(venue), IsLowerAlnum)
    IN <<normalizedTitle, date, normalizedVenue>>

(* `${title} ${description || ''}`.toLowerCase() *)
searchText(title, description) == toLowerCase(title \o <<" ">> \o description)

(* a bug detectEventType could have: the category whose keyword comes first in
   the text wins, not the first category of the table *)
detectEventTypeFirstInText(title, description) ==
    LET text == searchText(title, description)
        places(i) == UNION {occurrences(text, EVENT_TYPE_KEYWORDS[i].keywords[k]) :
                                k \in DOMAIN EVENT_TYPE_KEYWORDS[i].keywords}
        hits == {i \in DOMAIN EVENT_TYPE_KEYWORDS : places(i) # {}}
    IN IF hits = {} THEN "other"
       ELSE EVENT_TYPE_KEYWORDS[CHOOSE i \in hits :
                \A j \in hits : /\ MinOf(places(i)) <= MinOf(places(j))
                                 /\ (MinOf(places(i)) = MinOf(places(j)) => i <= j)].type

detectEventType(title, description) ==
    LET text == searchText(title, description)
        hit(i) == \E k \in DOMAIN EVENT_TYPE_KEYWORDS[i].keywords :
                      includes(text, EVENT_TYPE_KEYWORDS[i].keywords[k])
    IN IF \E i \in DOMAIN EVENT_TYPE_KEYWORDS : hit(i)
       THEN EVENT_TYPE_KEYWORDS[CHOOSE i \in DOMAIN EVENT_TYPE_KEYWORDS :
                                    hit(i) /\ \A j \in 1..(i - 1) : ~hit(j)].type
       ELSE "other"

(* the weekday names as tags *)
WeekdayTags ==
    <<"sunday", "monday", "tuesday", "wednesday", "thursday", "friday", "saturday">>

(* a bug extractTags could have: like the category, only the first match *)
extractTagsFirstMatchOnly(title, description) ==
    LET text == searchText(title, description)
        at(d) == occurrences(text, WeekdayNames[d])
        found == {d \in DOMAIN WeekdayNames : at(d) # {}}
        first == CHOOSE d \in found : \A e \in found : MinOf(at(d)) <= MinOf(at(e))
        type == detectEventType(title, description)
        typeTags == IF type = "other" THEN <<>> ELSE <<type>>
    IN IF found = {} THEN typeTags
       ELSE Append(typeTags, WeekdayTags[first])

(* the tags in the order in which they enter the Set *)
extractTags(title, description) ==
    LET text == searchText(title, description)
        hit(i) == \E k \in DOMAIN EVENT_TYPE_KEYWORDS[i].keywords :
                      includes(text, EVENT_TYPE_KEYWORDS[i].keywords[k])
        types == [i \in DOMAIN EVENT_TYPE_KEYWORDS |-> EVENT_TYPE_KEYWORDS[i].type]
        typeTags == SelectSeq(types,
                              LAMBDA ty : \E i \in DOMAIN EVENT_TYPE_KEYWORDS :
                                              EVENT_TYPE_KEYWORDS[i].type = ty /\ hit(i))
        \* where weekday names start in the text
        at(d) == occurrences(text, WeekdayNames[d])
        found == {d \in DOMAIN WeekdayNames : at(d) # {}}
        \* dayMatch[0]: the leftmost match
        first == CHOOSE d \in found : \A e \in found : MinOf(at(d)) <= MinOf(at(e))
    IN IF found = {} THEN typeTags
       ELSE Append(typeTags, WeekdayTags[first])

IsDash(c) == c = "-"

(* trim, collapse whitespace, drop a leading dash with the blanks after it and
   a trailing dash with the blanks before it (of the dashes the code accepts
   the texts held here use only '-') *)
normalizeTitle(title) ==
    LET collapsed == collapseWhitespace(trim(title))
        headless == IF collapsed # <<>> /\ IsDash(Head(collapsed))
                    THEN trimStart(Tail(collapsed))
                    ELSE collapsed
    IN IF headless # <<>> /\ IsDash(headless[Len(headless)])
       THEN trimEnd(SubSeq(headless, 1, Len(headless) - 1))
       ELSE headless

(* a bug calculateConfidence could have: a title of 5 characters counts *)
calculateConfidenceInclusive(data) ==
    Min(  50
        + (IF data.title # <<>> /\ Len(data.title) >= 5 THEN 10 ELSE 0)
        + (IF data.date # NULL THEN 15 ELSE 0)
        + (IF data.startTime # <<>> THEN 10 ELSE 0)
        + (IF data.description # <<>> /\ Len(data.description) > 20 THEN 10 ELSE 0)
        + (IF data.url # "" THEN 5 ELSE 0),
        100)

(* in hundredths *)
calculateConfidence(data) ==
    Min(  50
        + (IF data.title # <<>> /\ Len(data.title) > 5 THEN 10 ELSE 0)
        + (IF data.date # NULL THEN 15 ELSE 0)
        + (IF data.startTime # <<>> THEN 10 ELSE 0)
        + (IF data.description # <<>> /\ Len(data.description) > 20 THEN 10 ELSE 0)
        + (IF data.url # "" THEN 5 ELSE 0),
        100)

(* the Event built by normalizeEvent from a record with a resolved date *)
buildEvent(rawData, venue, source, date, now) ==
    LET dateStr == toISOString(date)
        recurringPattern == detectRecurringPattern(rawData.date)
    IN [id               |-> generateEventId(rawData.title, dateStr, venue.name),
        title            |-> normalizeTitle(rawData.title),
        description      |-> trim(rawData.description),
        date             |-> dateStr,
        startTime        |-> rawData.startTime,
        endTime          |-> rawData.endTime,
        venue            |-> venue,
        type             |-> detectEventType(rawData.title, rawData.description),
        tags             |-> extractTags(rawData.title, rawData.description),
        url              |-> rawData.url,
        imageUrl         |-> rawData.imageUrl,
        price            |-> rawData.price,
        isRecurring      |-> recurringPattern # NULL,
        recurringPattern |-> recurringPattern,
        scrapedAt        |-> now,
        source           |-> source,
        confidence       |-> calculateConfidence(rawData)]

(* a bug normalizeEvent could have: a record without a title is not dropped *)
normalizeEventKeepsUntitled(rawData, venue, source, now) ==
    LET date == IF rawData.date # NULL THEN parseDate(rawData.date, now, now) ELSE NULL
    IN IF date = NULL THEN NULL
       ELSE buildEvent(rawData, venue, source, date[1], now)

(* normalizeEvent at the instant now: <<>> (null) or the Event.  Nothing in the
   try block throws for a record of strings, so the catch is not entered. *)
normalizeEvent(rawData, venue, source, now) ==
    IF rawData.title = <<>> THEN NULL
    ELSE LET date == IF rawData.date # NULL
                     THEN parseDate(rawData.date, now, now)
                     ELSE NULL
         IN IF date = NULL THEN NULL
            ELSE buildEvent(rawData, venue, source, date[1], now)

(* what a call of normalizeEvent gives the logger, the entries of the
   parseDate call inside it included *)
normalizeEventLogs(rawData, venue, source, now) ==
    IF rawData.title = <<>> THEN <<"Event missing title, skipping">>
    ELSE IF rawData.date = NULL THEN <<"Could not parse date for event">>
    ELSE parseDateLogs(rawData.date, now, now)
             \o (IF parseDate(rawData.date, now, now) = NULL
                 THEN <<"Could not parse date for event">>
                 ELSE <<>>)

----------------------------------------------------------------------------
(* venue-status-manager *)

MAX_HISTORY_ENTRIES == 10

STALE_DAYS_THRESHOLD == 90

CONSECUTIVE_EMPTY_THRESHOLD == 3

(* 1000 * 60 * 60 * 24 milliseconds, in the model's unit *)
DayLength == 24

(* new Date(asOfDate).setHours(0, 0, 0, 0): the local midnight at or before t *)
startOfDay(t) == t - (t % DayLength)

(* !isNaN(d.getTime()) *)
IsValidDate(d) == d \in Int

(* a bug filterFutureEvents could have: the instant itself is the limit, not
   the start of its day *)
filterFutureEventsFromInstant(events, asOfDate) ==
    LET IsFuture(event) == dateOf(event.date) >= asOfDate
    IN SelectSeq(events, IsFuture)

filterFutureEvents(events, asOfDate) ==
    LET IsFuture(event) == dateOf(event.date) >= startOfDay(asOfDate)
    IN SelectSeq(events, IsFuture)

findLastEventDate(events) ==
    IF Len(events) = 0 THEN NULL
    ELSE LET dates == SelectSeq([i \in DOMAIN events |-> dateOf(events[i].date)],
                                IsValidDate)
         IN IF Len(dates) = 0 THEN NULL
            ELSE Some(MaxOf(Range(dates)))

(* a bug updateHistory could have: the newest entries are dropped, not the oldest *)
updateHistoryKeepOldest(existing, newEntry) ==
    LET history == Append(existing, newEntry)
    IN IF Len(history) > MAX_HISTORY_ENTRIES
       THEN SubSeq(history, 1, MAX_HISTORY_ENTRIES)
       ELSE history

(* existing is <<>> when the venue has no entry (existing ? [...existing] : []) *)
updateHistory(existing, newEntry) ==
    LET history == Append(existing, newEntry)
    IN IF Len(history) > MAX_HISTORY_ENTRIES
       THEN SubSeq(history, Len(history) - MAX_HISTORY_ENTRIES + 1, Len(history))
       ELSE history

(* the summary appended to scrapeHistory by updateVenueStatus *)
historyEntry(allEvents, futureEvents, scrapedAt) ==
    [scrapedAt        |-> scrapedAt,
     hadFutureEvents  |-> Len(futureEvents) > 0,
     futureEventCount |-> Len(futureEvents),
     totalEventCount  |-> Len(allEvents),
     lastEventDate    |-> findLastEventDate(allEvents)]

(* a bug updateVenueStatus could have: the counter is not reset by a future event *)
updateVenueStatusNoReset(file, venueId, allEvents, futureEvents, scrapedAt) ==
    LET exists == venueId \in DOMAIN file
        previousConsecutive ==
            IF exists THEN file[venueId].consecutiveScrapesWithNoFutureEvents ELSE 0
    IN [venueId          |-> venueId,
        lastScrapedAt    |-> scrapedAt,
        lastEventDate    |-> findLastEventDate(allEvents),
        hasFutureEvents  |-> Len(futureEvents) > 0,
        futureEventCount |-> Len(futureEvents),
        totalEventCount  |-> Len(allEvents),
        consecutiveScrapesWithNoFutureEvents |-> previousConsecutive + 1,
        scrapeHistory    |->
            updateHistory(IF exists THEN file[venueId].scrapeHistory ELSE <<>>,
                          historyEntry(allEvents, futureEvents, scrapedAt))]

(* the VenueStatus built by updateVenueStatus; venueName is venueId's configured
   name and is carried by venueId *)
updateVenueStatus(file, venueId, allEvents, futureEvents, scrapedAt) ==
    LET exists == venueId \in DOMAIN file
        lastEventDate == findLastEventDate(allEvents)
        hasFutureEvents == Len(futureEvents) > 0
        previousConsecutive ==
            IF exists THEN file[venueId].consecutiveScrapesWithNoFutureEvents ELSE 0
    IN [venueId          |-> venueId,
        lastScrapedAt    |-> scrapedAt,
        lastEventDate    |-> lastEventDate,
        hasFutureEvents  |-> hasFutureEvents,
        futureEventCount |-> Len(futureEvents),
        totalEventCount  |-> Len(allEvents),
        consecutiveScrapesWithNoFutureEvents |->
            IF hasFutureEvents THEN 0 ELSE previousConsecutive + 1,
        scrapeHistory    |->
            updateHistory(IF exists THEN file[venueId].scrapeHistory ELSE <<>>,
                          historyEntry(allEvents, futureEvents, scrapedAt))]

(* a bug the store could have: the new entry replaces the whole venues map *)
putVenueAlone(file, venueId, status) ==
    [v \in {venueId} |-> status]

(* statusFile.venues[venueId] = status *)
putVenue(file, venueId, status) ==
    [v \in DOMAIN file \cup {venueId} |-> IF v = venueId THEN status ELSE file[v]]

(* Math.floor((asOfDate.getTime() - lastEvent.getTime()) / (1000 * 60 * 60 * 24)) *)
daysSince(lastEvent, asOfDate) == (asOfDate - lastEvent) \div DayLength

(* a bug analyzeVenueStaleness could have: the day threshold is inclusive *)
analyzeVenueStalenessInclusive(status, asOfDate) ==
    LET known == status.lastEventDate # NULL
        days == IF known THEN Some(daysSince(status.lastEventDate[1], asOfDate)) ELSE NULL
        empty == status.consecutiveScrapesWithNoFutureEvents
        old == known /\ days[1] >= STALE_DAYS_THRESHOLD
    IN [venueId                 |-> status.venueId,
        isStale                 |-> old \/ ~known \/ empty >= CONSECUTIVE_EMPTY_THRESHOLD,
        reason                  |-> IF old THEN <<"last event days ago">> ELSE <<>>,
        lastEventDate           |-> status.lastEventDate,
        daysSinceLastEvent      |-> days,
        consecutiveEmptyScrapes |-> empty,
        recommendation          |->
            IF old \/ empty >= CONSECUTIVE_EMPTY_THRESHOLD THEN "disable"
            ELSE IF ~known \/ empty > 0 THEN "monitor" ELSE "keep"]

(* reason is the sequence of the reasons that the code joins with "; ";
   <<>> is the null reason *)
analyzeVenueStaleness(status, asOfDate) ==
    LET empty == status.consecutiveScrapesWithNoFutureEvents
        daysSinceLastEvent ==
            IF status.lastEventDate # NULL
            THEN Some(daysSince(status.lastEventDate[1], asOfDate))
            ELSE NULL
        \* the state of the locals after the first if / else
        first ==
            IF status.lastEventDate # NULL
            THEN IF daysSinceLastEvent[1] > STALE_DAYS_THRESHOLD
                 THEN [isStale |-> TRUE, reason |-> <<"last event days ago">>,
                       recommendation |-> "disable"]
                 ELSE [isStale |-> FALSE, reason |-> <<>>, recommendation |-> "keep"]
            ELSE [isStale |-> TRUE, reason |-> <<"no events ever found">>,
                  recommendation |-> IF empty >= CONSECUTIVE_EMPTY_THRESHOLD
                                     THEN "disable" ELSE "monitor"]
        \* and after the second
        second ==
            IF empty >= CONSECUTIVE_EMPTY_THRESHOLD
            THEN [isStale |-> TRUE,
                  reason |-> Append(first.reason, "consecutive scrapes with no future events"),
                  recommendation |-> "disable"]
            ELSE IF empty > 0 /\ first.recommendation # "disable"
                 THEN [first EXCEPT !.recommendation = "monitor"]
                 ELSE first
    IN [venueId                 |-> status.venueId,
        isStale                 |-> second.isStale,
        reason                  |-> second.reason,
        lastEventDate           |-> status.lastEventDate,
        daysSinceLastEvent      |-> daysSinceLastEvent,
        consecutiveEmptyScrapes |-> empty,
        recommendation          |-> second.recommendation]

----------------------------------------------------------------------------
(* the run driver's use of the tracker *)

VenueIds == {"crooked-lane", "moonraker"}

(* the longest sequence of scrapes followed with several venues *)
MaxScrapes == 3

(* the longest sequence of scrapes of one venue followed past the history capacity *)
MaxHistoryScrapes == 11

(* the hour of the day at which the first run starts *)
FirstRunHour == 10

(* event dates of a scrape's batch, as offsets in hours from the run's instant:
   empty, past only, earlier on the day of the run, past and future *)
BatchShapes == {<<>>, <<-48>>, <<-5>>, <<-48, 72>>}

HistoryBatchShapes == {<<>>, <<-48, 72>>}

(* time that passes between the starts of two scrapes: none (same run), a day *)
Advances == {0, DayLength}

BatchAt(shape, at) == [i \in DOMAIN shape |-> [date |-> toISOString(at + shape[i])]]

TotalScrapes == LET RECURSIVE Sum(_)
                    Sum(S) == IF S = {} THEN 0
                              ELSE LET v == CHOOSE x \in S : TRUE
                                   IN Len(scrapeLog[v]) + Sum(S \ {v})
                IN Sum(VenueIds)

(* the part of the driver that folds one venue's result into the tracker:
   futureEvents = filterFutureEvents(result.events, scrapeDate);
   updateVenueStatus(config.id, config.name, result.events, futureEvents, scrapeDate) *)
FoldIntoTracker(venueId, allEvents, scrapeDate) ==
    LET futureEvents == filterFutureEvents(allEvents, scrapeDate)
        status == updateVenueStatus(venues, venueId, allEvents, futureEvents, scrapeDate)
    IN /\ venues' = putVenue(venues, venueId, status)
       /\ clock' = scrapeDate
       /\ scrapeLog' = [scrapeLog EXCEPT ![venueId] =
                           Append(@, historyEntry(allEvents, futureEvents, scrapeDate))]
       /\ lastCall' = Some([venueId    |-> venueId,
                            existed    |-> venueId \in DOMAIN venues,
                            previous   |-> IF venueId \in DOMAIN venues
                                           THEN Some(venues[venueId]) ELSE NULL,
                            allEvents  |-> allEvents,
                            scrapedAt  |-> scrapeDate])
       /\ UNCHANGED <<staleVars, dedupVars, scrapeVars, callVars, runVars>>

(* a venue's scrape succeeded with the batch `shape` (result.success) *)
ScrapeSucceeded(venueId, shape, dt, limit) ==
    /\ TotalScrapes < limit
    /\ FoldIntoTracker(venueId, BatchAt(shape, clock + dt), clock + dt)
    /\ failures' = [failures EXCEPT ![venueId] = 0]

(* a bug the driver could have: a failed scrape is reported and not folded in *)
ScrapeFailedUnrecorded(venueId, dt, limit) ==
    /\ TotalScrapes < limit
    /\ clock' = clock + dt
    /\ scrapeLog' = [scrapeLog EXCEPT ![venueId] =
                        Append(@, historyEntry(<<>>, <<>>, clock + dt))]
    /\ failures' = [failures EXCEPT ![venueId] = @ + 1]
    /\ UNCHANGED <<venues, lastCall, staleVars, dedupVars, scrapeVars, callVars, runVars>>

(* a venue's scrape failed: the driver records an empty scrape *)
ScrapeFailed(venueId, dt, limit) ==
    /\ TotalScrapes < limit
    /\ FoldIntoTracker(venueId, <<>>, clock + dt)
    /\ failures' = [failures EXCEPT ![venueId] = @ + 1]

TrackerInit ==
    /\ venues = <<>>
    /\ clock = FirstRunHour
    /\ scrapeLog = [v \in VenueIds |-> <<>>]
    /\ failures = [v \in VenueIds |-> 0]
    /\ lastCall = NULL

StaleIdle ==
    /\ staleStatus = NULL
    /\ staleAsOf = 0
    /\ staleReport = NULL

DedupIdle ==
    /\ ddInput = <<>>
    /\ ddOutput = <<>>
    /\ ddAgain = <<>>
    /\ ddStage = "idle"

ScrapeIdle ==
    /\ rawEvents = <<>>
    /\ config = NULL
    /\ position = "idle"
    /\ processed = 0
    /\ scraped = <<>>
    /\ warnings = <<>>
    /\ outcomes = <<>>
    /\ prevRun = NULL

CallIdle ==
    /\ callArgs = NULL
    /\ callResult = NULL
    /\ logged = <<>>

NoRun == [pc |-> "idle"]

RunIdle ==
    /\ disk = [kind |-> "missing"]
    /\ loaded = TRUE
    /\ outputFiles = NULL
    /\ run = NoRun
    /\ lastSaved = disk

Init == TrackerInit /\ StaleIdle /\ DedupIdle /\ ScrapeIdle /\ CallIdle /\ RunIdle

Next ==
    \/ \E v \in VenueIds, s \in BatchShapes, dt \in Advances :
           ScrapeSucceeded(v, s, dt, MaxScrapes)
    \/ \E v \in VenueIds, dt \in Advances : ScrapeFailed(v, dt, MaxScrapes)

Spec == Init /\ [][Next]_vars

(* one venue scraped once a day, past the capacity of its history *)
HistoryVenue == "crooked-lane"

HistoryNext ==
    \/ \E s \in HistoryBatchShapes :
           ScrapeSucceeded(HistoryVenue, s, DayLength, MaxHistoryScrapes)
    \/ ScrapeFailed(HistoryVenue, DayLength, MaxHistoryScrapes)

SpecHistory == Init /\ [][HistoryNext]_vars

----------------------------------------------------------------------------
(* analyzeVenueStaleness on its own: a stored status and an "as of" instant *)

(* the largest stored counter of empty scrapes analysed *)
MaxEmptyScrapes == 4

(* the "as of" instants: a midnight and a morning, 300 days after instant 0 *)
AsOfInstants == {300 * DayLength, 300 * DayLength + 7}

(* hours from the last event to the midnight "as of": the event is a day ahead,
   at the instant itself, and around the 90 and 91 day marks *)
LastEventGaps ==
    {-DayLength, 0, 89 * DayLength, 90 * DayLength, 90 * DayLength + 23,
     91 * DayLength - 7, 91 * DayLength, 91 * DayLength + 1, 200 * DayLength}

StaleInit ==
    /\ \E last \in {NULL} \cup {Some(300 * DayLength - g) : g \in LastEventGaps},
          empty \in 0..MaxEmptyScrapes :
           staleStatus = [venueId |-> "crooked-lane",
                          lastEventDate |-> last,
                          consecutiveScrapesWithNoFutureEvents |-> empty]
    /\ staleAsOf \in AsOfInstants
    /\ staleReport = NULL
    /\ TrackerInit
    /\ DedupIdle
    /\ ScrapeIdle
    /\ CallIdle
    /\ RunIdle

Analyze ==
    /\ staleReport = NULL
    /\ staleStatus # NULL
    /\ staleReport' = Some(analyzeVenueStaleness(staleStatus, staleAsOf))
    /\ UNCHANGED <<staleStatus, staleAsOf, trackerVars, dedupVars, scrapeVars, callVars, runVars>>

SpecStale == StaleInit /\ [][Analyze]_vars

----------------------------------------------------------------------------
(* deduplicate on its own: a list of events, deduplicated, and once more *)

(* the longest list of events deduplicated *)
MaxEvents == 3

SevenPm == <<"7", "p", "m">>

JamOn == <<"J", "a", "m", " ", "O", "n">>

JamOnLoud == <<"j", "a", "m", " ", " ", "o", "n", "!">>

JamOnJoined == <<"J", "a", "m", "O", "n">>

Quiz == <<"Q", "u", "i", "z">>

Bar == <<"B", "a", "r">>

BarDotted == <<"b", "a", "r", ".">>

Pub == <<"P", "u", "b">>

FiftyLetters == [i \in 1..50 |-> "x"]

(* an Event as the normalizer builds it, from the fields the deduplicator reads *)
PoolEvent(title, at, venueName, description, startTime, price, confidence) ==
    [id               |-> generateEventId(title, toISOString(at), venueName),
     title            |-> title,
     description      |-> description,
     date             |-> toISOString(at),
     startTime        |-> startTime,
     endTime          |-> "",
     venue            |-> [name |-> venueName],
     type             |-> "other",
     tags             |-> <<>>,
     url              |-> "",
     imageUrl         |-> "",
     price            |-> price,
     isRecurring      |-> FALSE,
     recurringPattern |-> NULL,
     scrapedAt        |-> 0,
     source           |-> "crooked-lane",
     confidence       |-> confidence]

(* day 20 at 08:00 and 19:00, day 21 at 08:00 *)
EventPool ==
    {\* one fingerprint, "jam on" on day 20 at "bar": scores 115, 115, 175, 65
     PoolEvent(JamOn, 20 * 24 + 8, Bar, FiftyLetters, <<>>, "", 65),
     PoolEvent(JamOnLoud, 20 * 24 + 19, BarDotted, <<>>, <<>>, "$5", 65),
     PoolEvent(JamOn, 20 * 24 + 8, Bar, <<>>, SevenPm, "", 75),
     PoolEvent(JamOnLoud, 20 * 24 + 8, Bar, <<>>, <<>>, "", 65),
     \* other titles, days and venues
     PoolEvent(JamOnJoined, 20 * 24 + 8, Bar, <<>>, <<>>, "", 65),
     PoolEvent(JamOn, 21 * 24 + 8, Bar, <<>>, <<>>, "", 65),
     PoolEvent(JamOn, 20 * 24 + 8, Pub, <<>>, <<>>, "", 65),
     PoolEvent(Quiz, 20 * 24 + 8, Bar, <<>>, SevenPm, "", 75),
     PoolEvent(Quiz, 20 * 24 + 19, BarDotted, FiftyLetters, <<>>, "$5", 75)}

DedupInit ==
    /\ ddInput \in UNION {[1..n -> EventPool] : n \in 0..MaxEvents}
    /\ ddOutput = <<>>
    /\ ddAgain = <<>>
    /\ ddStage = "input"
    /\ TrackerInit
    /\ StaleIdle
    /\ ScrapeIdle
    /\ CallIdle
    /\ RunIdle

(* allEvents = deduplicator.deduplicate(allEvents) *)
Deduplicate ==
    /\ ddStage = "input"
    /\ ddOutput' = deduplicate(ddInput)
    /\ ddStage' = "once"
    /\ UNCHANGED <<ddInput, ddAgain, trackerVars, staleVars, scrapeVars, callVars, runVars>>

(* deduplicate applied to its own result *)
DeduplicateAgain ==
    /\ ddStage = "once"
    /\ ddAgain' = deduplicate(ddOutput)
    /\ ddStage' = "twice"
    /\ UNCHANGED <<ddInput, ddOutput, trackerVars, staleVars, scrapeVars, callVars, runVars>>

DedupNext == Deduplicate \/ DeduplicateAgain

SpecDedup == DedupInit /\ [][DedupNext]_vars

----------------------------------------------------------------------------
(* BaseScraper.scrape: the records of one venue page normalized one by one, in
   a first scrape and in a later scrape of the same page *)

(* the longest batch of raw records *)
MaxRawEvents == 2

JamOnDashed == <<"j", "a", "m", "-", "o", "n", "!">>

QuizLoud == <<"Q", "U", "I", "Z", "!">>

QuizNight == <<"Q", "u", "i", "z", " ", "N", "i", "g", "h", "t">>

QuizBlurb == <<"t", "r", "i", "v", "i", "a", " ", "a", "n", "d", " ", "l", "i", "v", "e", " ", "m", "u", "s", "i", "c", " ", "o", "n", " ", "t", "h", "u", "r", "s", "d", "a", "y", "s">>

RawRecord(title, date, startTime, description, url) ==
    [title |-> title, date |-> date, startTime |-> startTime, endTime |-> "",
     description |-> description, url |-> url, imageUrl |-> "", price |-> ""]

(* the first scrape starts at 10:00 on the last day but one of year 0, a
   Saturday; day 4 of a year is its January 5, and instant 369 * 24 is the
   midnight that starts January 5 of year 1 *)
FirstScrapeAt == 363 * 24 + 10

RawPool ==
    {RawRecord(JamOn, TodayText, SevenPm, <<>>, ""),
     RawRecord(JamOnDashed, TodayText, <<>>, <<>>, ""),
     RawRecord(<<>>, MonthDayText(4), SevenPm, <<>>, ""),
     RawRecord(Quiz, NULL, <<>>, <<>>, ""),
     RawRecord(Quiz, OtherText, <<>>, <<>>, ""),
     RawRecord(Quiz, MonthDayText(4), <<>>, <<>>, ""),
     RawRecord(QuizNight, WeekdayText("every", 4), SevenPm, QuizBlurb, "https://bar.example/quiz"),
     RawRecord(Quiz, TomorrowText, <<>>, <<>>, ""),
     RawRecord(QuizLoud, IsoText(369 * 24), <<>>, <<>>, "")}

(* two venues whose names differ in case and punctuation only *)
ScraperConfigs ==
    {[id |-> "bar", name |-> Bar], [id |-> "bar-annex", name |-> BarDotted]}

(* time from the start of one scrape to the start of the next: an hour, a day *)
ScrapeGaps == {1, DayLength}

(* only the name of the VenueInfo is read by the code modelled here *)
getVenueInfo(cfg) == [name |-> cfg.name]

ScrapeInit ==
    /\ rawEvents \in UNION {[1..n -> RawPool] : n \in 1..MaxRawEvents}
    /\ config \in ScraperConfigs
    /\ position = "ready"
    /\ processed = 0
    /\ scraped = <<>>
    /\ warnings = <<>>
    /\ outcomes = <<>>
    /\ prevRun = NULL
    /\ venues = <<>>
    /\ clock = FirstScrapeAt
    /\ scrapeLog = [v \in VenueIds |-> <<>>]
    /\ failures = [v \in VenueIds |-> 0]
    /\ lastCall = NULL
    /\ StaleIdle
    /\ DedupIdle
    /\ CallIdle
    /\ RunIdle

(* scrape() up to the for loop: fetchContent and parseEvents give rawEvents *)
BeginScrape ==
    /\ position = "ready"
    /\ position' = "loop"
    /\ UNCHANGED <<rawEvents, config, processed, scraped, warnings, outcomes, prevRun>>
    /\ UNCHANGED <<trackerVars, staleVars, dedupVars, callVars, runVars>>

(* one pass of the for loop of scrape *)
NormalizeNext ==
    /\ position = "loop"
    /\ processed < Len(rawEvents)
    /\ LET rawEvent == rawEvents[processed + 1]
           event == normalizeEvent(rawEvent, getVenueInfo(config), config.id, clock)
       IN /\ IF event # NULL
             THEN scraped' = Append(scraped, event) /\ UNCHANGED warnings
             ELSE /\ warnings' = Append(warnings,
                                        IF rawEvent.title # <<>> THEN rawEvent.title
                                        ELSE <<"U", "n", "k", "n", "o", "w", "n">>)
                  /\ UNCHANGED scraped
          /\ outcomes' = Append(outcomes, event)
          /\ logged' = logged \o normalizeEventLogs(rawEvent, getVenueInfo(config),
                                                    config.id, clock)
    /\ processed' = processed + 1
    /\ UNCHANGED <<rawEvents, config, position, prevRun, callArgs, callResult>>
    /\ UNCHANGED <<trackerVars, staleVars, dedupVars, runVars>>

(* the loop is over: scrape returns {success: true, events, warnings} *)
FinishScrape ==
    /\ position = "loop"
    /\ processed = Len(rawEvents)
    /\ position' = "done"
    /\ UNCHANGED <<rawEvents, config, processed, scraped, warnings, outcomes, prevRun>>
    /\ UNCHANGED <<trackerVars, staleVars, dedupVars, callVars, runVars>>

(* a later run scrapes the same page again, for the same or the other venue *)
ScrapeAgain(cfg, gap) ==
    /\ position = "done"
    /\ prevRun = NULL
    /\ prevRun' = [config |-> config, outcomes |-> outcomes]
    /\ config' = cfg
    /\ clock' = clock + gap
    /\ position' = "loop"
    /\ processed' = 0
    /\ scraped' = <<>>
    /\ warnings' = <<>>
    /\ outcomes' = <<>>
    /\ logged' = <<>>
    /\ UNCHANGED <<rawEvents, venues, scrapeLog, lastCall, failures, callArgs, callResult>>
    /\ UNCHANGED <<staleVars, dedupVars, runVars>>

(* what the scrape command (--venue) makes of the result before the outputs:
   futureEvents = filterFutureEvents(result.events, scrapeDate),
   allEvents = futureEvents, allEvents = deduplicator.deduplicate(allEvents) *)
DeduplicateScraped ==
    /\ position = "done"
    /\ ddStage = "idle"
    /\ ddInput' = filterFutureEvents(scraped, clock)
    /\ ddOutput' = deduplicate(ddInput')
    /\ ddStage' = "once"
    /\ UNCHANGED <<ddAgain, trackerVars, staleVars, scrapeVars, callVars, runVars>>

ScrapeNext ==
    \/ BeginScrape
    \/ NormalizeNext
    \/ FinishScrape
    \/ DeduplicateScraped
    \/ \E cfg \in ScraperConfigs, gap \in ScrapeGaps : ScrapeAgain(cfg, gap)

SpecScrape == ScrapeInit /\ [][ScrapeNext]_vars

----------------------------------------------------------------------------
(* normalizeEvent on its own: one raw record, a venue and the instant of the
   call *)

TriviaNight == <<"T", "r", "i", "v", "i", "a", " ", "N", "i", "g", "h", "t">>

WineTasting == <<"W", "i", "n", "e", " ", "T", "a", "s", "t", "i", "n", "g">>

MusicAndQuiz == <<"M", "u", "s", "i", "c", " ", "a", "n", "d", " ", "Q", "u", "i", "z">>

BookClub == <<"B", "o", "o", "k", " ", "C", "l", "u", "b">>

QuizBang == <<"Q", "u", "i", "z", "!">>

Party == <<"P", "a", "r", "t", "y">>

WeekendBrunch == <<"S", "a", "t", "u", "r", "d", "a", "y", "s", " ", "&", " ", "S", "u", "n", "d", "a", "y", " ", "B", "r", "u", "n", "c", "h">>

EveryThursdayBlurb == <<"E", "v", "e", "r", "y", " ", "T", "h", "u", "r", "s", "d", "a", "y">>

(* 20 and 21 characters *)
DoorsBlurb == <<"D", "o", "o", "r", "s", " ", "o", "p", "e", "n", " ", "a", "t", " ", "s", "e", "v", "e", "n", ".">>

DoorsBlurbLoud == <<"D", "o", "o", "r", "s", " ", "o", "p", "e", "n", " ", "a", "t", " ", "s", "e", "v", "e", "n", "!", "!">>

CrookedLane == <<"C", "r", "o", "o", "k", "e", "d", " ", "L", "a", "n", "e">>

NormalizeTitles ==
    {TriviaNight, WineTasting, MusicAndQuiz, BookClub, QuizBang, Party, WeekendBrunch}

NormalizeDescriptions == {<<>>, EveryThursdayBlurb, QuizBlurb, DoorsBlurb, DoorsBlurbLoud}

NormalizeDates == {WeekdayText("every", 4), MonthDayText(4), TodayText, OtherText}

(* a Saturday and the Thursday after it, at 10:00 *)
NormalizeInstants == {FirstScrapeAt, FirstScrapeAt + 5 * DayLength}

NormalizeInit ==
    /\ callArgs \in [op : {"normalizeEvent"},
                     rawData : {RawRecord(t, d, st, de, u) :
                                    t \in NormalizeTitles, d \in NormalizeDates,
                                    st \in {<<>>, SevenPm},
                                    de \in NormalizeDescriptions,
                                    u \in {"", "https://bar.example/quiz"}},
                     venue : {[name |-> CrookedLane], [name |-> Bar]},
                     now : NormalizeInstants]
    /\ callResult = NULL
    /\ logged = <<>>
    /\ TrackerInit
    /\ StaleIdle
    /\ DedupIdle
    /\ ScrapeIdle
    /\ RunIdle

(* eventNormalizer.normalizeEvent(rawData, venue, source) at the instant now *)
NormalizeCall ==
    /\ callArgs.op = "normalizeEvent"
    /\ callResult = NULL
    /\ callResult' = Some(normalizeEvent(callArgs.rawData, callArgs.venue,
                                         "crooked-lane", callArgs.now))
    /\ logged' = logged \o normalizeEventLogs(callArgs.rawData, callArgs.venue,
                                              "crooked-lane", callArgs.now)
    /\ UNCHANGED <<callArgs, trackerVars, staleVars, dedupVars, scrapeVars, runVars>>

SpecNormalize == NormalizeInit /\ [][NormalizeCall]_vars

----------------------------------------------------------------------------
(* parseDate on its own: a date text, a reference instant and the wall clock
   of the call *)

(* January 1, January 5, June 1, December 31 *)
ParseDays == {0, 4, 151, 364}

(* "" is the bare weekday name *)
ParseQualifiers == {"", "this", "next", "every"}

ParseTexts ==
    {MonthDayText(d) : d \in ParseDays}
        \cup {MonthDayYearText(1, 4), IsoText(369 * 24 + 19), TodayText, OtherText}
        \cup {WeekdayText(q, d) : q \in ParseQualifiers, d \in 0..6}

(* 00:00 on January 1, January 5 and June 1 of year 1, and 10:00 on January 5 *)
ParseReferences == {365 * 24, 369 * 24, 369 * 24 + 10, (365 + 151) * 24}

(* how long after the reference instant the call is made: at once, a day, a
   year and a half *)
ParseDelays == {0, DayLength, 550 * DayLength}

ParseInit ==
    /\ callArgs \in [op : {"parseDate"}, dateStr : ParseTexts,
                     referenceDate : ParseReferences]
    /\ callResult = NULL
    /\ logged = <<>>
    /\ clock \in {callArgs.referenceDate + d : d \in ParseDelays}
    /\ venues = <<>>
    /\ scrapeLog = [v \in VenueIds |-> <<>>]
    /\ failures = [v \in VenueIds |-> 0]
    /\ lastCall = NULL
    /\ StaleIdle
    /\ DedupIdle
    /\ ScrapeIdle
    /\ RunIdle

(* dateParser.parseDate(dateStr, referenceDate) *)
ParseDateCall ==
    /\ callArgs.op = "parseDate"
    /\ callResult = NULL
    /\ callResult' = Some(parseDate(callArgs.dateStr, callArgs.referenceDate, clock))
    /\ logged' = logged \o parseDateLogs(callArgs.dateStr, callArgs.referenceDate, clock)
    /\ UNCHANGED <<callArgs, trackerVars, staleVars, dedupVars, scrapeVars, runVars>>

SpecParse == ParseInit /\ [][ParseDateCall]_vars

----------------------------------------------------------------------------
(* findSimilar on its own: a query event, a pool of events and a threshold *)

(* the longest pool searched *)
MaxSimilarPool == 2

BigLawn == <<"J", "a", "m", " ", "O", "n", " ", "T", "h", "e", " ", "B", "i", "g", " ", "L", "a", "w", "n">>

BigLawnLoud == <<"j", "a", "m", " ", "o", "n", " ", "t", "h", "e", " ", " ", "b", "i", "g", " ", "l", "a", "w", "n", "!">>

BigLawnShort == <<"J", "a", "m", " ", "O", "n", " ", "T", "h", "e", " ", "B", "i", "g">>

BigLawnShorter == <<"J", "a", "m", " ", "O", "n", " ", "T", "h", "e">>

(* day 20 at 08:00 and 19:00, day 21 at 08:00; the first two events have the
   same id *)
SimilarPool ==
    {PoolEvent(BigLawn, 20 * 24 + 8, Bar, <<>>, <<>>, "", 65),
     PoolEvent(BigLawnLoud, 20 * 24 + 8, BarDotted, <<>>, <<>>, "", 65),
     PoolEvent(BigLawnShort, 20 * 24 + 19, Bar, <<>>, <<>>, "", 65),
     PoolEvent(BigLawnShorter, 20 * 24 + 8, Bar, <<>>, <<>>, "", 65),
     PoolEvent(BigLawn, 21 * 24 + 8, Bar, <<>>, <<>>, "", 65),
     PoolEvent(BigLawn, 20 * 24 + 8, Pub, <<>>, <<>>, "", 65)}

(* the default of 0.8, 0.5 and 1 *)
SimilarThresholds == {NULL, Some(50), Some(100)}

SimilarInit ==
    /\ callArgs \in [op : {"findSimilar"}, event : SimilarPool,
                     events : UNION {[1..n -> SimilarPool] : n \in 0..MaxSimilarPool},
                     threshold : SimilarThresholds]
    /\ callResult = NULL
    /\ logged = <<>>
    /\ TrackerInit
    /\ StaleIdle
    /\ DedupIdle
    /\ ScrapeIdle
    /\ RunIdle

(* deduplicator.findSimilar(event, events, threshold) *)
FindSimilarCall ==
    /\ callArgs.op = "findSimilar"
    /\ callResult = NULL
    /\ callResult' = Some(findSimilar(callArgs.event, callArgs.events, callArgs.threshold))
    /\ UNCHANGED <<callArgs, logged, trackerVars, staleVars, dedupVars, scrapeVars, runVars>>

SpecSimilar == SimilarInit /\ [][FindSimilarCall]_vars

----------------------------------------------------------------------------
(* The scrape command (--all) from start to exit, run after run, with the
   status store on disk; diskAtStart, outputsAtStart, loadedFrom and
   loadedVenues of `run` are history: the store and the output files at the
   start of the run, the store that load read and what load made of it.  The
   store is
     [kind |-> "missing"]       no file
     [kind |-> "unreadable"]    a file that readFile cannot read
     [kind |-> "unparseable"]   a file whose content is not JSON
     [kind |-> "partial"]       a file that writeFile has opened, and so
                                truncated, and not yet written in full
     [kind |-> "document", venues |-> ...]   a written VenueStatusFile *)

(* the most runs followed *)
MaxRuns == 2

(* fs.readFile(this.filePath, 'utf-8') *)
readFile(store) ==
    IF store.kind \in {"missing", "unreadable"}
    THEN [error |-> TRUE]
    ELSE [error |-> FALSE, content |-> store]

(* JSON.parse(content) *)
parseJSON(content) ==
    IF content.kind = "document"
    THEN [error |-> FALSE, value |-> content.venues]
    ELSE [error |-> TRUE]

(* a bug load could have: only a failing read is caught, not a failing parse *)
loadCatchingReadOnly(isLoaded, file, store) ==
    IF isLoaded THEN [raised |-> FALSE, venues |-> file, read |-> FALSE]
    ELSE LET read == readFile(store)
         IN IF read.error THEN [raised |-> FALSE, venues |-> <<>>, read |-> TRUE]
            ELSE LET parsed == parseJSON(read.content)
                 IN IF parsed.error THEN [raised |-> TRUE, venues |-> <<>>, read |-> TRUE]
                    ELSE [raised |-> FALSE, venues |-> parsed.value, read |-> TRUE]

(* a bug load could have: the store is read again by every call *)
loadReadingAgain(isLoaded, file, store) ==
    LET read == readFile(store)
    IN IF read.error THEN [raised |-> FALSE, venues |-> <<>>, read |-> TRUE]
       ELSE LET parsed == parseJSON(read.content)
            IN IF parsed.error THEN [raised |-> FALSE, venues |-> <<>>, read |-> TRUE]
               ELSE [raised |-> FALSE, venues |-> parsed.value, read |-> TRUE]

(* load(): the venues of this.statusFile, read from the store when it is not
   set yet; raised says whether an error leaves load, read whether readFile
   was called *)
load(isLoaded, file, store) ==
    IF isLoaded THEN [raised |-> FALSE, venues |-> file, read |-> FALSE]
    ELSE LET read == readFile(store)
         IN IF read.error THEN [raised |-> FALSE, venues |-> <<>>, read |-> TRUE]
            ELSE LET parsed == parseJSON(read.content)
                 IN IF parsed.error THEN [raised |-> FALSE, venues |-> <<>>, read |-> TRUE]
                    ELSE [raised |-> FALSE, venues |-> parsed.value, read |-> TRUE]

(* generateStalenessReport(asOfDate) on the loaded venues: the report of every
   status, held by venue id (the order of the list is not modelled) *)
generateStalenessReport(file, asOfDate) ==
    [v \in DOMAIN file |-> analyzeVenueStaleness(file[v], asOfDate)]

(* the configs left by --skip-stale: those whose report does not recommend
   "disable" *)
skipStaleConfigs(configs, reports) ==
    SelectSeq(configs, LAMBDA c : ~(c \in DOMAIN reports
                                      /\ reports[c].recommendation = "disable"))

(* a bug the loop over the configs could have: it ends one venue early *)
loopIsOverEarly(configs) == Len(configs) <= 1

(* for (const config of configs): no config is left *)
loopIsOver(configs) == configs = <<>>

(* an entry of the history `steps` of a run; venue is "" for a step of the
   whole run *)
Step(op, venue) == [op |-> op, venue |-> venue]

ReadStep(file) == IF file.read THEN <<Step("read", "")>> ELSE <<>>

(* the venues that the document in `store` makes "disable" as of asOfDate *)
DisabledIn(store, asOfDate) ==
    IF store.kind = "document"
    THEN {v \in DOMAIN store.venues :
             analyzeVenueStaleness(store.venues[v], asOfDate).recommendation = "disable"}
    ELSE {}

(* a bug the command could have: the status is saved in a dry run as well *)
savesStatusAlways(options) == TRUE

(* if (!options.dryRun) await statusManager.save() *)
savesStatus(options) == ~options.dryRun

(* if (!options.dryRun && allEvents.length > 0) ... writeOutputs *)
writesOutputs(options, allEvents) == ~options.dryRun /\ Len(allEvents) > 0

(* registry.getEnabledConfigs(): the ids of the enabled venues *)
EnabledConfigs == <<"crooked-lane", "moonraker">>

(* what a venue's scrape comes to: future events, past events only, failure *)
RunOutcomes == {"future", "past", "failed"}

VenueNames == [v \in VenueIds |-> IF v = "crooked-lane" THEN CrookedLane ELSE Bar]

(* the events of a venue's scrape at the instant `at`: one two days before, and
   with "future" one three days after *)
RunBatch(venueId, outcome, at) ==
    LET event(offset) == PoolEvent(JamOn, at + offset, VenueNames[venueId],
                                   <<>>, SevenPm, "", 75)
    IN IF outcome = "future" THEN <<event(-48), event(72)>>
       ELSE IF outcome = "past" THEN <<event(-48)>>
       ELSE <<>>

(* the status of a venue scraped once, a day before the first run, with no
   events *)
StoredStatus ==
    updateVenueStatus(<<>>, "crooked-lane", <<>>, <<>>, FirstRunHour - DayLength)

InitialStores ==
    {[kind |-> "missing"], [kind |-> "unreadable"], [kind |-> "unparseable"],
     [kind |-> "document", venues |-> putVenue(<<>>, "crooked-lane", StoredStatus)]}

(* the run record before the first run; disabledAtStart and disabledBefore
   are history: the venues that the store made "disable" as of the start of
   this run, and as of the start of an earlier run *)
BeforeRuns == [pc |-> "idle", number |-> 0, disabledAtStart |-> {},
               disabledBefore |-> {}]

RunInit ==
    /\ disk \in InitialStores
    /\ lastSaved = disk
    /\ loaded = FALSE
    /\ outputFiles = NULL
    /\ run = BeforeRuns
    /\ TrackerInit
    /\ StaleIdle
    /\ DedupIdle
    /\ ScrapeIdle
    /\ CallIdle

(* a new process runs the command: new VenueStatusManager(), scrapeDate = new
   Date(), configs = registry.getEnabledConfigs(), and with --skip-stale
   generateStalenessReport (which loads the store) and the filter of configs;
   planned and steps of `run` are history: the configs the loop starts with and
   what the run has done so far *)
StartRun(dryRun, skipStale) ==
    /\ run.pc \in {"idle", "exited", "aborted", "crashed"}
    /\ run.number < MaxRuns
    /\ LET scrapeDate == clock + DayLength
           file == IF skipStale THEN load(FALSE, <<>>, disk)
                   ELSE [raised |-> FALSE, venues |-> <<>>, read |-> FALSE]
           configs == IF skipStale
                      THEN skipStaleConfigs(EnabledConfigs,
                                            generateStalenessReport(file.venues, scrapeDate))
                      ELSE EnabledConfigs
       IN /\ run' = [pc |-> IF file.raised THEN "crashed" ELSE "venues",
                     number |-> run.number + 1,
                     options |-> [dryRun |-> dryRun, skipStale |-> skipStale],
                     configs |-> configs, allEvents |-> <<>>,
                     scrapeDate |-> scrapeDate,
                     diskAtStart |-> disk, outputsAtStart |-> outputFiles,
                     loadedFrom |-> IF file.read THEN Some(disk) ELSE NULL,
                     loadedVenues |-> IF file.read THEN Some(file.venues) ELSE NULL,
                     planned |-> configs, steps |-> ReadStep(file),
                     report |-> NULL,
                     disabledAtStart |-> DisabledIn(disk, scrapeDate),
                     disabledBefore |-> run.disabledBefore \cup run.disabledAtStart]
          /\ clock' = scrapeDate
          /\ loaded' = (skipStale /\ ~file.raised)
          /\ venues' = file.venues
    /\ lastCall' = NULL
    /\ UNCHANGED <<scrapeLog, failures, disk, outputFiles, lastSaved>>
    /\ UNCHANGED <<staleVars, dedupVars, scrapeVars, callVars>>

(* one pass of the loop over the configs: scrape (which normalizes the raw
   records unless the fetch or the parse fails), filterFutureEvents,
   updateVenueStatus (which loads the store first), allEvents.push *)
RunScrapeVenue(outcome) ==
    /\ run.pc = "venues"
    /\ ~loopIsOver(run.configs)
    /\ LET venueId == Head(run.configs)
           allEvents == RunBatch(venueId, outcome, run.scrapeDate)
           futureEvents == filterFutureEvents(allEvents, run.scrapeDate)
           file == load(loaded, venues, disk)
           status == updateVenueStatus(file.venues, venueId, allEvents, futureEvents,
                                       run.scrapeDate)
           scrapeSteps == IF outcome = "failed" THEN <<>>
                          ELSE <<Step("normalize", venueId)>>
       IN IF file.raised
          THEN /\ run' = [run EXCEPT !.pc = "crashed",
                                     !.steps = @ \o scrapeSteps \o ReadStep(file)]
               /\ UNCHANGED <<venues, loaded, scrapeLog, lastCall, failures>>
          ELSE /\ venues' = putVenue(file.venues, venueId, status)
               /\ loaded' = TRUE
               /\ scrapeLog' = [scrapeLog EXCEPT ![venueId] =
                                   Append(@, historyEntry(allEvents, futureEvents,
                                                          run.scrapeDate))]
               /\ lastCall' = Some([venueId    |-> venueId,
                                    existed    |-> venueId \in DOMAIN file.venues,
                                    previous   |-> IF venueId \in DOMAIN file.venues
                                                   THEN Some(file.venues[venueId])
                                                   ELSE NULL,
                                    allEvents  |-> allEvents,
                                    scrapedAt  |-> run.scrapeDate])
               /\ failures' = [failures EXCEPT ![venueId] =
                                   IF outcome = "failed" THEN @ + 1 ELSE 0]
               /\ run' = [run EXCEPT
                             !.configs = Tail(@),
                             !.allEvents = IF outcome = "failed" THEN @
                                           ELSE @ \o futureEvents,
                             !.loadedFrom = IF file.read THEN Some(disk) ELSE @,
                             !.loadedVenues = IF file.read THEN Some(file.venues) ELSE @,
                             !.steps = @ \o scrapeSteps \o ReadStep(file)
                                         \o <<Step("fold", venueId)>>]
    /\ UNCHANGED <<clock, disk, outputFiles, lastSaved>>
    /\ UNCHANGED <<staleVars, dedupVars, scrapeVars, callVars>>

(* after the loop: deduplicate, summary, generateStalenessReport (which loads
   the store if nothing has yet) *)
RunReport ==
    /\ run.pc = "venues"
    /\ loopIsOver(run.configs)
    /\ LET file == load(loaded, venues, disk)
       IN IF file.raised
          THEN /\ run' = [run EXCEPT !.pc = "crashed",
                                     !.steps = @ \o <<Step("deduplicate", "")>>
                                                 \o ReadStep(file)]
               /\ UNCHANGED <<venues, loaded>>
          ELSE /\ venues' = file.venues
               /\ loaded' = TRUE
               /\ run' = [run EXCEPT
                             !.pc = "save",
                             !.allEvents = deduplicate(@),
                             !.report = Some(generateStalenessReport(file.venues,
                                                                     run.scrapeDate)),
                             !.loadedFrom = IF file.read THEN Some(disk) ELSE @,
                             !.loadedVenues = IF file.read THEN Some(file.venues) ELSE @,
                             !.steps = @ \o <<Step("deduplicate", "")>>
                                         \o ReadStep(file)]
    /\ UNCHANGED <<clock, scrapeLog, lastCall, failures, disk, outputFiles, lastSaved>>
    /\ UNCHANGED <<staleVars, dedupVars, scrapeVars, callVars>>

(* a dry run skips save; otherwise save() comes to writeFile, which opens the
   file for writing and so truncates it *)
RunSave ==
    /\ run.pc = "save"
    /\ IF savesStatus(run.options) /\ loaded
       THEN /\ disk' = [kind |-> "partial"]
            /\ run' = [run EXCEPT !.pc = "writing",
                                  !.steps = Append(@, Step("write", ""))]
       ELSE /\ run' = [run EXCEPT !.pc = "outputs"]
            /\ UNCHANGED disk
    /\ UNCHANGED <<loaded, outputFiles, lastSaved>>
    /\ UNCHANGED <<trackerVars, staleVars, dedupVars, scrapeVars, callVars>>

(* writeFile has written JSON.stringify(this.statusFile) in full *)
RunSaveDone ==
    /\ run.pc = "writing"
    /\ disk' = [kind |-> "document", venues |-> venues]
    /\ lastSaved' = disk'
    /\ run' = [run EXCEPT !.pc = "outputs"]
    /\ UNCHANGED <<loaded, outputFiles>>
    /\ UNCHANGED <<trackerVars, staleVars, dedupVars, scrapeVars, callVars>>

(* the output files are written unless the run is dry or has no events; the
   command returns *)
RunWriteOutputs ==
    /\ run.pc = "outputs"
    /\ outputFiles' = IF writesOutputs(run.options, run.allEvents)
                      THEN Some(run.allEvents)
                      ELSE outputFiles
    /\ run' = [run EXCEPT !.pc = "exited"]
    /\ UNCHANGED <<disk, loaded, lastSaved>>
    /\ UNCHANGED <<trackerVars, staleVars, dedupVars, scrapeVars, callVars>>

(* the process is killed while the command runs *)
Abort ==
    /\ run.pc \in {"venues", "save", "writing", "outputs"}
    /\ run' = [run EXCEPT !.pc = "aborted"]
    /\ UNCHANGED <<disk, loaded, outputFiles, lastSaved>>
    /\ UNCHANGED <<trackerVars, staleVars, dedupVars, scrapeVars, callVars>>

RunNext ==
    \/ \E dryRun \in BOOLEAN : StartRun(dryRun, FALSE)
    \/ \E outcome \in RunOutcomes : RunScrapeVenue(outcome)
    \/ RunReport
    \/ RunSave
    \/ RunSaveDone
    \/ RunWriteOutputs
    \/ Abort

SpecRun == RunInit /\ [][RunNext]_vars

----------------------------------------------------------------------------
(* The scrape command run with --all --skip-stale, run after run *)

(* a venue scraped on each of the `days` days before the first run, with no
   events *)
AfterEmptyScrapes(venueId, days) ==
    LET RECURSIVE After(_)
        After(n) ==
            IF n = 0 THEN <<>>
            ELSE LET before == After(n - 1)
                 IN putVenue(before, venueId,
                             updateVenueStatus(before, venueId, <<>>, <<>>,
                                               FirstRunHour - (days - n + 1) * DayLength))
    IN After(days)[venueId]

(* no store, and a document in which crooked-lane has had two scrapes without
   a future event and moonraker three *)
SkipStaleStores ==
    {[kind |-> "missing"],
     [kind |-> "document",
      venues |-> putVenue(putVenue(<<>>, "crooked-lane", AfterEmptyScrapes("crooked-lane", 2)),
                          "moonraker", AfterEmptyScrapes("moonraker", 3))]}

SkipStaleInit ==
    /\ disk \in SkipStaleStores
    /\ lastSaved = disk
    /\ loaded = FALSE
    /\ outputFiles = NULL
    /\ run = BeforeRuns
    /\ TrackerInit
    /\ StaleIdle
    /\ DedupIdle
    /\ ScrapeIdle
    /\ CallIdle

SkipStaleNext ==
    \/ \E dryRun \in BOOLEAN : StartRun(dryRun, TRUE)
    \/ \E outcome \in RunOutcomes : RunScrapeVenue(outcome)
    \/ RunReport
    \/ RunSave
    \/ RunSaveDone
    \/ RunWriteOutputs
    \/ Abort

SpecSkipStale == SkipStaleInit /\ [][SkipStaleNext]_vars

----------------------------------------------------------------------------
(* Properties of the status tracker *)

TheCall == lastCall[1]

(* the batch of the latest call holds an event dated at or after the start of
   the day of the scrape *)
CallHasFutureEvent ==
    \E i \in DOMAIN TheCall.allEvents :
        TheCall.allEvents[i].date.day >= TheCall.scrapedAt \div 24

CallPreviousCounter ==
    IF TheCall.existed
    THEN TheCall.previous[1].consecutiveScrapesWithNoFutureEvents
    ELSE 0

(* C1: after every updateVenueStatus call, whatever scrapes came before, the
   venue's stored consecutiveScrapesWithNoFutureEvents is 0 if the batch holds
   at least one future event, and otherwise the previously stored value plus 1,
   a venue without an entry counting as 0. *)
C1_CounterResetsOrIncrements ==
    lastCall # NULL =>
        venues[TheCall.venueId].consecutiveScrapesWithNoFutureEvents =
            IF CallHasFutureEvent THEN 0 ELSE CallPreviousCounter + 1

(* a venue with a counter of 2 is scraped again and has a future event *)
C1_Witness ==
    /\ lastCall # NULL
    /\ TheCall.existed
    /\ CallPreviousCounter = 2
    /\ CallHasFutureEvent
    /\ venues[TheCall.venueId].consecutiveScrapesWithNoFutureEvents = 0

(* C2: an updateVenueStatus call with an empty batch, for a venue whose stored
   lastEventDate is known, leaves that lastEventDate as it was. *)
C2_EmptyScrapeKeepsLastEventDate ==
    (/\ lastCall # NULL
     /\ TheCall.allEvents = <<>>
     /\ TheCall.existed
     /\ TheCall.previous[1].lastEventDate # NULL)
    => venues[TheCall.venueId].lastEventDate = TheCall.previous[1].lastEventDate

(* C3: after n updateVenueStatus calls for a venue its scrapeHistory holds
   exactly min(n, 10) entries, the summaries of the latest min(n, 10) scrapes,
   oldest first, ending with the summary of the latest call. *)
C3_HistoryIsLatestTen ==
    \A v \in DOMAIN venues :
        LET n == Len(scrapeLog[v])
            h == venues[v].scrapeHistory
        IN /\ Len(h) = Min(n, 10)
           /\ \A i \in 1..Len(h) : h[i] = scrapeLog[v][n - Len(h) + i]
           /\ n > 0 => h[Len(h)] = scrapeLog[v][n]

(* the eleventh scrape of a venue has evicted the summary of its first *)
C3_Witness ==
    /\ HistoryVenue \in DOMAIN venues
    /\ Len(scrapeLog[HistoryVenue]) = 11
    /\ Len(venues[HistoryVenue].scrapeHistory) = 10
    /\ venues[HistoryVenue].scrapeHistory[1] = scrapeLog[HistoryVenue][2]
    /\ scrapeLog[HistoryVenue][1] # scrapeLog[HistoryVenue][2]

(* C24: entries are never deleted: every venue id that ever received an entry
   still has one; an updateVenueStatus call for venue A leaves A with an entry,
   made if it was absent, and leaves the entry of every other venue as it was. *)
C24_EntriesStayAndOthersUntouched ==
    [][/\ \A v \in VenueIds : scrapeLog[v] # <<>> => v \in DOMAIN venues'
       /\ lastCall' # NULL =>
              LET a == lastCall'[1].venueId
              IN /\ a \in DOMAIN venues'
                 /\ DOMAIN venues' = DOMAIN venues \cup {a}
                 /\ \A v \in DOMAIN venues \ {a} : venues'[v] = venues[v]]_vars

(* the latest call made the entry of one venue while the other venue, scraped
   before it, keeps the entry of its own latest scrape *)
C24_Witness ==
    /\ lastCall # NULL
    /\ ~TheCall.existed
    /\ \E v \in DOMAIN venues \ {TheCall.venueId} :
           /\ Len(scrapeLog[v]) = 2
           /\ venues[v].scrapeHistory = scrapeLog[v]
           /\ venues[v].lastScrapedAt < TheCall.scrapedAt

(* the number of entries at the end of a scrapeHistory with hadFutureEvents false *)
TrailingEmpty(history) ==
    MaxOf({k \in 0..Len(history) :
              \A i \in (Len(history) - k + 1)..Len(history) :
                  ~history[i].hadFutureEvents})

(* C27: from an empty store, after any updateVenueStatus calls, each venue's
   scrapeHistory ends with exactly min(consecutiveScrapesWithNoFutureEvents, 10)
   entries without future events, and the counter is 0 exactly when the stored
   hasFutureEvents is true. *)
C27_TrailingEmptyMatchesCounter ==
    \A v \in DOMAIN venues :
        /\ TrailingEmpty(venues[v].scrapeHistory) =
               Min(venues[v].consecutiveScrapesWithNoFutureEvents, 10)
        /\ venues[v].consecutiveScrapesWithNoFutureEvents = 0
               <=> venues[v].hasFutureEvents

(* eleven scrapes in a row without a future event: the counter has outgrown the
   history *)
C27_Witness ==
    /\ HistoryVenue \in DOMAIN venues
    /\ venues[HistoryVenue].consecutiveScrapesWithNoFutureEvents = 11
    /\ TrailingEmpty(venues[HistoryVenue].scrapeHistory) = 10
    /\ ~venues[HistoryVenue].hasFutureEvents

(* the staleness report of the venue of the latest call, as of that call's
   instant *)
ReportAfterCall == analyzeVenueStaleness(venues[TheCall.venueId], TheCall.scrapedAt)

(* C30: right after a scrape with at least one future event is folded in, the
   venue's report as of the scrape's instant recommends keep, is not stale and
   has no reason, whatever the venue's entry was before. *)
C30_FutureEventMeansKeep ==
    (lastCall # NULL /\ CallHasFutureEvent) =>
        /\ ReportAfterCall.recommendation = "keep"
        /\ ~ReportAfterCall.isStale
        /\ ReportAfterCall.reason = NULL

(* a venue that had two scrapes in a row without a future event, and so was to
   be monitored, is scraped again and has one *)
C30_Witness ==
    /\ lastCall # NULL
    /\ CallHasFutureEvent
    /\ TheCall.existed
    /\ CallPreviousCounter = 2
    /\ analyzeVenueStaleness(TheCall.previous[1], TheCall.scrapedAt).recommendation
           = "monitor"
    /\ ReportAfterCall.recommendation = "keep"

(* the summary of a scrape without events *)
EmptySummary(scrapedAt) ==
    [scrapedAt |-> scrapedAt, hadFutureEvents |-> FALSE, futureEventCount |-> 0,
     totalEventCount |-> 0, lastEventDate |-> NULL]

(* C28: a venue whose scrape fails is folded in as an empty scrape: its counter
   goes up by 1 and a history entry with zero counts is appended; a venue whose
   latest three scrapes failed is recommended "disable", even if the scrape
   before them had future events. *)
C28_FailedScrapeCountsAsEmpty ==
    /\ (lastCall # NULL /\ failures[TheCall.venueId] > 0) =>
           LET status == venues[TheCall.venueId]
           IN /\ status.consecutiveScrapesWithNoFutureEvents = CallPreviousCounter + 1
              /\ status.scrapeHistory[Len(status.scrapeHistory)]
                     = EmptySummary(TheCall.scrapedAt)
    /\ \A v \in VenueIds :
           failures[v] >= 3 =>
               /\ v \in DOMAIN venues
               /\ analyzeVenueStaleness(venues[v], clock).recommendation = "disable"

(* three failed scrapes after one with future events: the venue, whose last
   event is still ahead, is to be disabled *)
C28_Witness ==
    /\ failures[HistoryVenue] = 3
    /\ Len(scrapeLog[HistoryVenue]) >= 4
    /\ scrapeLog[HistoryVenue][Len(scrapeLog[HistoryVenue]) - 3].hadFutureEvents
    /\ venues[HistoryVenue].consecutiveScrapesWithNoFutureEvents = 3
    /\ analyzeVenueStaleness(venues[HistoryVenue], clock).recommendation = "disable"

----------------------------------------------------------------------------
(* Properties of the staleness classification *)

TheReport == staleReport[1]

(* whole days from the analysed status's last event to the "as of" instant,
   rounded down; defined only when the last event date is known *)
WholeDaysSinceLastEvent ==
    CHOOSE d \in -1000..1000 :
        /\ d * 24 <= staleAsOf - staleStatus.lastEventDate[1]
        /\ staleAsOf - staleStatus.lastEventDate[1] < (d + 1) * 24

LastEventKnown == staleStatus.lastEventDate # NULL

EmptyScrapes == staleStatus.consecutiveScrapesWithNoFutureEvents

ShouldDisable == (LastEventKnown /\ WholeDaysSinceLastEvent > 90) \/ EmptyScrapes >= 3

(* C4: the recommendation is 'disable' iff the last event is known and more
   than 90 whole days before the "as of" instant, or there are 3 or more
   consecutive empty scrapes; otherwise 'monitor' iff the last event date is
   unknown or the counter is above 0; otherwise 'keep'. *)
C4_Recommendation ==
    staleReport # NULL =>
        /\ (TheReport.recommendation = "disable") <=> ShouldDisable
        /\ ~ShouldDisable =>
              /\ (TheReport.recommendation = "monitor") <=>
                     (~LastEventKnown \/ EmptyScrapes > 0)
              /\ (TheReport.recommendation = "keep") <=>
                     (LastEventKnown /\ EmptyScrapes = 0)

(* the last event is exactly 90 days before the "as of" instant, no scrape was
   empty, and the venue is kept *)
C4_Witness ==
    /\ staleReport # NULL
    /\ LastEventKnown
    /\ staleAsOf - staleStatus.lastEventDate[1] = 90 * 24
    /\ EmptyScrapes = 0
    /\ TheReport.recommendation = "keep"

----------------------------------------------------------------------------
(* Properties of the deduplicator *)

(* the fingerprint of the claims: title and venue name lowercased, stripped of
   everything but letters, digits and blanks, blanks collapsed and trimmed;
   the date cut down to its day *)
FingerprintOf(event) ==
    <<normalizeString(event.title), event.date.day, normalizeString(event.venue.name)>>

Deduplicated == ddStage \in {"once", "twice"}

(* where a fingerprint first appears in the input *)
FirstSeen(fp) == MinOf({i \in DOMAIN ddInput : FingerprintOf(ddInput[i]) = fp})

(* C5: deduplicate returns exactly one event per distinct fingerprint present
   in the input, ordered by where each fingerprint first appears in the input. *)
C5_OnePerFingerprintInFirstSeenOrder ==
    Deduplicated =>
        /\ {FingerprintOf(ddOutput[i]) : i \in DOMAIN ddOutput}
               = {FingerprintOf(ddInput[i]) : i \in DOMAIN ddInput}
        /\ \A i, j \in DOMAIN ddOutput :
               i < j => /\ FingerprintOf(ddOutput[i]) # FingerprintOf(ddOutput[j])
                        /\ FirstSeen(FingerprintOf(ddOutput[i])) < FirstSeen(FingerprintOf(ddOutput[j]))
        /\ \A i \in DOMAIN ddOutput : ddOutput[i] \in Range(ddInput)

(* three events of two fingerprints, the first and the last of one fingerprint,
   come back as two *)
C5_Witness ==
    /\ Deduplicated
    /\ Len(ddInput) = 3
    /\ FingerprintOf(ddInput[1]) = FingerprintOf(ddInput[3])
    /\ FingerprintOf(ddInput[1]) # FingerprintOf(ddInput[2])
    /\ ddInput[1].title # ddInput[3].title
    /\ Len(ddOutput) = 2
    /\ FingerprintOf(ddOutput[2]) = FingerprintOf(ddInput[2])

(* the completeness score of the claims, in hundredths *)
Completeness(event) ==
      Len(event.description)
    + (IF event.startTime # <<>> THEN 100 ELSE 0)
    + 100 * Cardinality({f \in {"endTime", "url", "imageUrl"} : event[f] # ""})
    + (IF event.price # "" THEN 50 ELSE 0)
    + (IF event.tags # <<>> THEN 50 ELSE 0)
    + event.confidence

(* C6: the event kept for a fingerprint is the first in the input, among the
   events of that fingerprint, that has the maximum completeness score, and it
   is returned as it was given. *)
C6_KeepsFirstOfTheBest ==
    Deduplicated =>
        \A k \in DOMAIN ddOutput :
            LET group == {i \in DOMAIN ddInput : FingerprintOf(ddInput[i]) = FingerprintOf(ddOutput[k])}
                best == MaxOf({Completeness(ddInput[i]) : i \in group})
                first == MinOf({i \in group : Completeness(ddInput[i]) = best})
            IN ddOutput[k] = ddInput[first]

(* a group of three: the lowest score first, then two different events that
   tie for the best; the first of the two is kept *)
C6_Witness ==
    /\ Deduplicated
    /\ Len(ddInput) = 3
    /\ Len(ddOutput) = 1
    /\ Completeness(ddInput[1]) < Completeness(ddInput[2])
    /\ Completeness(ddInput[2]) = Completeness(ddInput[3])
    /\ ddInput[2] # ddInput[3]
    /\ ddOutput[1] = ddInput[2]

(* C7: deduplicate is idempotent: deduplicating its result gives the same
   events in the same order. *)
C7_Idempotent == ddStage = "twice" => ddAgain = ddOutput

(* a list with a duplicate and two fingerprints was deduplicated twice *)
C7_Witness ==
    /\ ddStage = "twice"
    /\ Len(ddInput) = 3
    /\ Len(ddOutput) = 2
    /\ ddAgain = ddOutput

----------------------------------------------------------------------------
(* Properties of the normalizer and of the scrape loop *)

(* a text with its case and every character but letters and digits removed *)
LettersAndDigits(str) ==
    LET letterOrDigit(c) == c \in Range(UpperCase) \cup Range(LowerCase) \cup Digits
    IN toLowerCase(SelectSeq(str, letterOrDigit))

(* every event normalized in the scrape under way and in the scrape before it,
   with the raw title and the venue name it was made from *)
Normalized ==
    {[title |-> rawEvents[i].title, venue |-> config.name, event |-> outcomes[i]] :
        i \in {j \in DOMAIN outcomes : outcomes[j] # NULL}}
    \cup
    (IF prevRun = NULL THEN {}
     ELSE {[title |-> rawEvents[i].title, venue |-> prevRun.config.name,
            event |-> prevRun.outcomes[i]] :
              i \in {j \in DOMAIN prevRun.outcomes : prevRun.outcomes[j] # NULL}})

SameTitleAndVenue(a, b) ==
    /\ LettersAndDigits(a.title) = LettersAndDigits(b.title)
    /\ LettersAndDigits(a.venue) = LettersAndDigits(b.venue)

(* C8: the event id is a function of the title and the venue name, each with
   case and non-alphanumeric characters removed, and of the date string:
   titles that differ in case or punctuation only give the same id for the
   same date and venue, and different dates give different ids for the same
   title and venue. *)
C8_IdFromTitleDateVenue ==
    \A a, b \in Normalized :
        SameTitleAndVenue(a, b) => ((a.event.id = b.event.id) <=> (a.event.date = b.event.date))

(* two records of one scrape, titled "Jam On" and "jam-on!", got the same id,
   and a later scrape, for the other spelling of the venue name, gave one of
   them another date and another id *)
C8_Witness ==
    /\ \E a, b \in Normalized :
           /\ a.title = JamOn /\ b.title = JamOnDashed
           /\ a.event.id = b.event.id
    /\ \E a, b \in Normalized :
           /\ a.title = b.title
           /\ a.venue # b.venue
           /\ SameTitleAndVenue(a, b)
           /\ a.event.date # b.event.date
           /\ a.event.id # b.event.id

(* "Quiz" and "QUIZ!", scraped for "Bar" and for "bar." with dates that
   resolve to the same instant, got the same id *)
C8_WitnessAcrossVenues ==
    \E a, b \in Normalized :
        /\ a.title = Quiz /\ b.title = QuizLoud
        /\ a.venue # b.venue
        /\ a.event.id = b.event.id

(* C9: the same raw record, normalized for the same venue in two scrapes whose
   dates fall on the same calendar day, gets the same id in both. *)
C9_SameIdInLaterScrape ==
    prevRun # NULL =>
        \A i \in DOMAIN outcomes :
            (/\ prevRun.config = config
             /\ outcomes[i] # NULL
             /\ prevRun.outcomes[i] # NULL
             /\ outcomes[i].date.day = prevRun.outcomes[i].date.day)
            => outcomes[i].id = prevRun.outcomes[i].id

(* no rule of the date parser matches the text *)
Unresolvable(dateStr) ==
    dateStr.kind \notin {"iso", "monthDayYear", "monthDay", "today", "tomorrow", "weekday"}

ShouldDrop(rawEvent) ==
    rawEvent.title = <<>> \/ rawEvent.date = NULL \/ Unresolvable(rawEvent.date)

(* the raw records gone through so far that are not to be dropped *)
Kept == SelectSeq(SubSeq(rawEvents, 1, processed), LAMBDA r : ~ShouldDrop(r))

(* C10: normalizeEvent returns null exactly for a record with an empty title
   or with a date that is absent or cannot be resolved, and an event always
   has a resolved date; scrape goes through every raw record whatever was
   dropped before, so that in the end events and warnings together are as
   many as the raw records, and the events are in the order of their records. *)
C10_DropsExactlyTheUnusable ==
    /\ \A i \in DOMAIN outcomes :
           /\ (outcomes[i] = NULL) <=> ShouldDrop(rawEvents[i])
           /\ outcomes[i] # NULL => outcomes[i].date.day \in Int /\ outcomes[i].date.time \in 0..23
    /\ Len(scraped) + Len(warnings) = processed
    /\ position = "done" => processed = Len(rawEvents)
    /\ Len(scraped) = Len(Kept)
    /\ \A k \in DOMAIN scraped :
           scraped[k] = normalizeEvent(Kept[k], getVenueInfo(config), config.id, clock)

(* a scrape ended with a record kept after a record that was dropped *)
C10_Witness ==
    /\ position = "done"
    /\ Len(rawEvents) = 2
    /\ outcomes[1] = NULL /\ outcomes[2] # NULL
    /\ Len(scraped) = 1 /\ Len(warnings) = 1

(* the events of the latest call's batch dated on the day of the scrape or
   later *)
FutureOfCall ==
    {i \in DOMAIN TheCall.allEvents :
        TheCall.allEvents[i].date.day >= TheCall.scrapedAt \div DayLength}

(* C20: the hasFutureEvents recorded for a venue's scrape is true exactly when
   an event of the batch is dated at or after 00:00 of the day of the run's
   instant, futureEventCount is the number of such events, and the hour of the
   day of that instant makes no difference. *)
C20_FutureIsFromStartOfDay ==
    lastCall # NULL =>
        LET status == venues[TheCall.venueId]
            latest == status.scrapeHistory[Len(status.scrapeHistory)]
        IN /\ status.hasFutureEvents = (FutureOfCall # {})
           /\ status.futureEventCount = Cardinality(FutureOfCall)
           /\ latest.hadFutureEvents = (FutureOfCall # {})
           /\ latest.futureEventCount = Cardinality(FutureOfCall)
           /\ \A hour \in 0..(DayLength - 1) :
                  Len(filterFutureEvents(TheCall.allEvents,
                                         startOfDay(TheCall.scrapedAt) + hour))
                      = Cardinality(FutureOfCall)

(* a scrape whose only event is dated earlier on the day of the run is
   recorded as having one future event *)
C20_Witness ==
    /\ lastCall # NULL
    /\ Len(TheCall.allEvents) = 1
    /\ dateOf(TheCall.allEvents[1].date) < TheCall.scrapedAt
    /\ TheCall.allEvents[1].date.day = TheCall.scrapedAt \div DayLength
    /\ venues[TheCall.venueId].hasFutureEvents = TRUE
    /\ venues[TheCall.venueId].futureEventCount = 1

----------------------------------------------------------------------------
(* Properties of findSimilar on its own *)

(* the words of the normalized title of an event *)
TitleWords(event) ==
    LET title == normalizeString(event.title)
    IN {SubSeq(title, i, j) : <<i, j>> \in
           {<<i, j>> \in (DOMAIN title) \X (DOMAIN title) :
               /\ i <= j
               /\ \A k \in i..j : title[k] # " "
               /\ (i = 1 \/ title[i - 1] = " ")
               /\ (j = Len(title) \/ title[j + 1] = " ")}}

(* same normalized venue name, same day, and a Jaccard index of the title
   words of at least the threshold (in hundredths) *)
SimilarTo(event, other, limit) ==
    /\ normalizeString(event.venue.name) = normalizeString(other.venue.name)
    /\ event.date.day = other.date.day
    /\ 100 * Cardinality(TitleWords(event) \cap TitleWords(other))
           >= limit * Cardinality(TitleWords(event) \cup TitleWords(other))

SimilarLimit == IF callArgs.threshold = NULL THEN 80 ELSE callArgs.threshold[1]

SimilarCalled ==
    /\ callArgs # NULL
    /\ callArgs.op = "findSimilar"
    /\ callResult # NULL

(* C18, as claimed: findSimilar returns exactly the members of the pool, other
   than the query event itself, of the query's normalized venue and day whose
   title words have a Jaccard index with the query's of at least the threshold. *)
C18_SimilarExceptTheQueryItself ==
    SimilarCalled =>
        callResult[1] = SelectSeq(callArgs.events,
                                  LAMBDA other : /\ other # callArgs.event
                                                 /\ SimilarTo(callArgs.event, other, SimilarLimit))

(* C18, amended: findSimilar returns exactly the members of the pool whose id
   differs from the query's id, of the query's normalized venue and day, whose
   title words have a Jaccard index with the query's of at least the threshold
   (0.8 when none is given); it never returns the query event nor an event of
   another venue or day. *)
C18_SimilarExceptTheQuerysId ==
    SimilarCalled =>
        /\ callResult[1] = SelectSeq(callArgs.events,
                                     LAMBDA other : /\ other.id # callArgs.event.id
                                                    /\ SimilarTo(callArgs.event, other, SimilarLimit))
        /\ \A i \in DOMAIN callResult[1] :
               /\ callResult[1][i] # callArgs.event
               /\ callResult[1][i].date.day = callArgs.event.date.day
               /\ normalizeString(callResult[1][i].venue.name)
                      = normalizeString(callArgs.event.venue.name)

(* with the default threshold, an event with the query's id and other title
   text is left out and an event with an index of exactly 0.8 is returned *)
C18_Witness ==
    /\ SimilarCalled
    /\ callArgs.threshold = NULL
    /\ Len(callArgs.events) = 2
    /\ callArgs.events[1] # callArgs.event
    /\ callArgs.events[1].id = callArgs.event.id
    /\ Cardinality(TitleWords(callArgs.event)) = 5
    /\ Cardinality(TitleWords(callArgs.events[2])) = 4
    /\ callResult[1] = <<callArgs.events[2]>>

----------------------------------------------------------------------------
(* Properties of the scrape command *)

RunHasLoaded == run.pc # "idle" /\ run.loadedFrom # NULL

(* C16: load never fails: no error leaves it, and when the store is missing,
   unreadable or not parseable, it gives a state without venues, with which
   the run goes on. *)
C16_LoadGivesEmptyStateForBadStore ==
    /\ run.pc # "crashed"
    /\ RunHasLoaded =>
           /\ run.loadedVenues # NULL
           /\ (run.loadedFrom[1].kind # "document" => run.loadedVenues[1] = <<>>)
           /\ (run.loadedFrom[1].kind = "document"
                   => run.loadedVenues[1] = run.loadedFrom[1].venues)

(* a run that found an unparseable store has come to its end, knowing only the
   scrapes of this run *)
C16_Witness ==
    /\ RunHasLoaded
    /\ run.loadedFrom[1].kind \in {"unparseable", "partial"}
    /\ run.loadedVenues[1] = <<>>
    /\ run.pc = "exited"
    /\ DOMAIN venues = VenueIds
    /\ \A v \in VenueIds : Len(venues[v].scrapeHistory) = 1

(* C17: when a run is aborted, the store holds the complete document of the
   last completed save (or what was there before any save) or the complete
   new document, never a partly written one. *)
C17_AbortLeavesCompleteStore ==
    run.pc = "aborted" =>
        /\ disk.kind # "partial"
        /\ \/ disk = lastSaved
           \/ disk = [kind |-> "document", venues |-> venues]

(* C19: a run started with --dry-run leaves the status store and the output
   files as they were at its start. *)
C19_DryRunWritesNothing ==
    (run.pc # "idle" /\ run.options.dryRun) =>
        /\ disk = run.diskAtStart
        /\ outputFiles = run.outputsAtStart

(* a dry run has come to its end with events to save and a status that
   differs from the stored one *)
C19_Witness ==
    /\ run.pc = "exited"
    /\ run.options.dryRun
    /\ Len(run.allEvents) > 0
    /\ loaded
    /\ disk # [kind |-> "document", venues |-> venues]
    /\ disk = run.diskAtStart
    /\ outputFiles = run.outputsAtStart

----------------------------------------------------------------------------
(* Properties of the order of the steps of a run *)

StepsAt(op) == {i \in DOMAIN run.steps : run.steps[i].op = op}

(* the steps of the run on batches of events, without those on the store *)
WorkSteps ==
    SelectSeq(run.steps, LAMBDA st : st.op \in {"normalize", "deduplicate", "fold"})

(* the venues folded into the tracker by the run, in the order of the folds *)
FoldedVenues ==
    LET folds == SelectSeq(run.steps, LAMBDA st : st.op = "fold")
    IN [i \in DOMAIN folds |-> folds[i].venue]

(* C21 as stated: each venue's batch is normalized, then deduplicated, then
   folded into the tracker, the three steps of a venue coming together before
   any step of the next venue. *)
C21_NormalizeDeduplicateFoldPerVenue ==
    run.pc # "idle" =>
        \A i \in DOMAIN WorkSteps :
            WorkSteps[i].op = "normalize" =>
                /\ i + 2 <= Len(WorkSteps)
                /\ WorkSteps[i + 1].op = "deduplicate"
                /\ WorkSteps[i + 2] = Step("fold", WorkSteps[i].venue)

(* C21, amended: each venue's batch is normalized and then folded into the
   tracker before any step of the next venue, venue after venue in the order of
   the configs; the events are deduplicated once in the run, after the last
   venue has been folded. *)
C21_NormalizeFoldPerVenueThenDeduplicate ==
    run.pc # "idle" =>
        /\ \A i \in DOMAIN WorkSteps :
               /\ WorkSteps[i].op = "normalize" =>
                      /\ i + 1 <= Len(WorkSteps)
                      /\ WorkSteps[i + 1] = Step("fold", WorkSteps[i].venue)
               /\ WorkSteps[i].op = "deduplicate" =>
                      /\ i = Len(WorkSteps)
                      /\ FoldedVenues = run.planned
        /\ Len(FoldedVenues) <= Len(run.planned)
        /\ FoldedVenues = SubSeq(run.planned, 1, Len(FoldedVenues))
        /\ Cardinality(StepsAt("deduplicate")) <= 1
        /\ run.pc \in {"save", "writing", "outputs", "exited"} =>
               Cardinality(StepsAt("deduplicate")) = 1

(* both venues were scraped with events: five steps, the deduplication last *)
C21_Witness ==
    /\ run.pc = "save"
    /\ WorkSteps = <<Step("normalize", "crooked-lane"), Step("fold", "crooked-lane"),
                     Step("normalize", "moonraker"), Step("fold", "moonraker"),
                     Step("deduplicate", "")>>
    /\ Len(run.allEvents) = 2

(* C23: in one run the store is read at most once, before any venue is
   updated; the venues updated in the run are in the staleness report with the
   status the run gave them; the store is written at most once, after every
   venue of the run has been processed. *)
C23_StoreReadOnceWrittenOnce ==
    run.pc # "idle" =>
        /\ Cardinality(StepsAt("read")) <= 1
        /\ \A f \in StepsAt("fold") : \E r \in StepsAt("read") : r < f
        /\ run.report # NULL =>
               \A f \in StepsAt("fold") :
                   LET v == run.steps[f].venue
                   IN /\ v \in DOMAIN run.report[1]
                      /\ v \in DOMAIN venues
                      /\ venues[v].lastScrapedAt = run.scrapeDate
                      /\ run.report[1][v] = analyzeVenueStaleness(venues[v], run.scrapeDate)
        /\ Cardinality(StepsAt("write")) <= 1
        /\ \A w \in StepsAt("write") :
               /\ \A f \in StepsAt("fold") : f < w
               /\ FoldedVenues = run.planned
               /\ run.configs = <<>>

(* a run over a stored document that updated both venues and saved *)
C23_Witness ==
    /\ run.pc = "exited"
    /\ run.diskAtStart.kind = "document"
    /\ Cardinality(StepsAt("read")) = 1
    /\ Cardinality(StepsAt("fold")) = 2
    /\ Cardinality(StepsAt("write")) = 1
    /\ disk = [kind |-> "document", venues |-> venues]

(* the run has not scraped the venue *)
NotScraped(v) == \A i \in DOMAIN run.steps : run.steps[i].venue # v

(* the venue's entry is as the store had it at the start of the run, in memory
   once the store is loaded and in the store once the run is over *)
EntryUnchanged(v) ==
    /\ loaded => (v \in DOMAIN venues /\ venues[v] = run.diskAtStart.venues[v])
    /\ run.pc \in {"exited", "aborted", "crashed"} =>
           /\ disk.kind = "document"
           /\ v \in DOMAIN disk.venues
           /\ disk.venues[v] = run.diskAtStart.venues[v]

(* C29: in a run with --skip-stale a venue that is "disable" as of the start of
   the run is not scraped and its entry is left as it was; a venue that was
   "disable" at the start of an earlier such run is "disable" at the start of
   this one and is not scraped. *)
C29_DisabledStaysDisabledAndUnscraped ==
    (run.pc # "idle" /\ run.options.skipStale) =>
        /\ \A v \in run.disabledAtStart : NotScraped(v) /\ EntryUnchanged(v)
        /\ \A v \in run.disabledBefore :
               v \in run.disabledAtStart /\ NotScraped(v)

----------------------------------------------------------------------------
(* Properties of normalizeEvent on its own *)

NormalizedEvent == callResult[1]

HasTag(event, tag) == \E i \in DOMAIN event.tags : event.tags[i] = tag

(* C11: the record {title: 'Trivia Night', date: 'Every Thursday', startTime:
   '7pm'} for the venue 'Crooked Lane' normalizes to an event of type 'trivia',
   with the tags 'trivia' and 'thursday', isRecurring = true, recurringPattern
   'weekly:thursday', and the start time '7pm', which parseTime resolves to
   19:00. *)
C11_TriviaNightEveryThursday ==
    (/\ callArgs # NULL
     /\ callArgs.op = "normalizeEvent"
     /\ callArgs.rawData = RawRecord(TriviaNight, WeekdayText("every", 4), SevenPm, <<>>, "")
     /\ callArgs.venue.name = CrookedLane
     /\ callResult # NULL)
    => /\ NormalizedEvent # NULL
       /\ NormalizedEvent.type = "trivia"
       /\ HasTag(NormalizedEvent, "trivia")
       /\ HasTag(NormalizedEvent, "thursday")
       /\ NormalizedEvent.isRecurring = TRUE
       /\ NormalizedEvent.recurringPattern
              = <<"w", "e", "e", "k", "l", "y", ":", "t", "h", "u", "r", "s", "d", "a", "y">>
       /\ parseTime(NormalizedEvent.startTime) = Some([hours |-> 19, minutes |-> 0])

(* the category of the keyword table at each place, in the order of the table *)
CategoryOrder ==
    <<"trivia", "music", "food", "wine", "beer", "paint", "comedy", "tasting",
      "workshop", "special", "recurring", "other">>

(* the lowercased 'title + blank + description' of the record normalized *)
LoweredText ==
    toLowerCase(callArgs.rawData.title \o <<" ">> \o callArgs.rawData.description)

OccursAt(word, text, i) ==
    /\ i + Len(word) - 1 <= Len(text)
    /\ \A k \in 1..Len(word) : text[i + k - 1] = word[k]

Occurs(word, text) == \E i \in 1..Len(text) : OccursAt(word, text, i)

(* the places of the table whose category has a keyword in the text *)
Matching ==
    {i \in DOMAIN CategoryOrder :
        \E j \in DOMAIN EVENT_TYPE_KEYWORDS :
            /\ EVENT_TYPE_KEYWORDS[j].type = CategoryOrder[i]
            /\ \E k \in DOMAIN EVENT_TYPE_KEYWORDS[j].keywords :
                   Occurs(EVENT_TYPE_KEYWORDS[j].keywords[k], LoweredText)}

HasNormalized ==
    /\ callArgs # NULL
    /\ callArgs.op = "normalizeEvent"
    /\ callResult # NULL
    /\ NormalizedEvent # NULL

(* C13: the type of a normalized event is the first category, in the order of
   the table, with a keyword in the lowercased title and description, and
   'other' when no category has one. *)
C13_TypeIsFirstCategoryOfTable ==
    HasNormalized =>
        IF Matching = {}
        THEN NormalizedEvent.type = "other"
        ELSE /\ NormalizedEvent.type = CategoryOrder[MinOf(Matching)]
             /\ NormalizedEvent.type # "other"

(* 'Music and Quiz' became a trivia event: music comes first in the text,
   trivia in the table *)
C13_Witness ==
    /\ HasNormalized
    /\ callArgs.rawData.title = MusicAndQuiz
    /\ callArgs.rawData.description = <<>>
    /\ Matching = {1, 2}
    /\ NormalizedEvent.type = "trivia"

(* the weekdays named in the text, each with the place of its first occurrence *)
WeekdaysNamed ==
    {d \in DOMAIN WeekdayNames : Occurs(WeekdayNames[d], LoweredText)}

FirstPlace(d) ==
    MinOf({i \in 1..Len(LoweredText) : OccursAt(WeekdayNames[d], LoweredText, i)})

FirstWeekdayNamed ==
    {WeekdayTags[d] : d \in {e \in WeekdaysNamed :
                               \A f \in WeekdaysNamed : FirstPlace(e) <= FirstPlace(f)}}

(* C14: the tags of a normalized event are every category with a keyword in
   the text and the first weekday named in the text, and nothing else, each
   once. *)
C14_TagsAreAllCategoriesAndFirstWeekday ==
    HasNormalized =>
        /\ Range(NormalizedEvent.tags)
               = {CategoryOrder[i] : i \in Matching} \cup FirstWeekdayNamed
        /\ Cardinality(Range(NormalizedEvent.tags)) = Len(NormalizedEvent.tags)
        /\ Cardinality(Range(NormalizedEvent.tags) \cap Range(WeekdayTags)) <= 1

(* 'Saturdays & Sunday Brunch' with 'trivia and live music on thursdays' got
   three category tags and the one weekday tag 'saturday' *)
C14_Witness ==
    /\ HasNormalized
    /\ callArgs.rawData.title = WeekendBrunch
    /\ callArgs.rawData.description = QuizBlurb
    /\ Cardinality(WeekdaysNamed) = 3
    /\ NormalizedEvent.type = "trivia"
    /\ Range(NormalizedEvent.tags) = {"trivia", "music", "food", "saturday"}

(* the confidence of the claim, in hundredths, from the signals of the record *)
Signals ==
    LET rawData == callArgs.rawData
    IN   (IF Len(rawData.title) > 5 THEN 10 ELSE 0)
       + 15
       + (IF Len(rawData.startTime) > 0 THEN 10 ELSE 0)
       + (IF Len(rawData.description) > 20 THEN 10 ELSE 0)
       + (IF rawData.url # "" THEN 5 ELSE 0)

(* C15: the confidence of a normalized event is min(1.0, 0.5 + the bonuses of
   its signals), so it is between 0 and 1, and 1.0 when all five signals are
   present. *)
C15_ConfidenceIsClampedSum ==
    HasNormalized =>
        /\ NormalizedEvent.confidence = Min(100, 50 + Signals)
        /\ NormalizedEvent.confidence \in 0..100
        /\ (Signals = 50 => NormalizedEvent.confidence = 100)

(* a record with all five signals got 1.0, and 'Quiz!', five characters long,
   has no bonus for its title *)
C15_Witness ==
    /\ HasNormalized
    /\ \/ /\ Signals = 50
          /\ NormalizedEvent.confidence = 100
          /\ callArgs.rawData.description = DoorsBlurbLoud
       \/ /\ callArgs.rawData.title = QuizBang
          /\ callArgs.rawData.description = DoorsBlurb
          /\ callArgs.rawData.startTime = <<>>
          /\ callArgs.rawData.url = ""
          /\ NormalizedEvent.confidence = 65

----------------------------------------------------------------------------
(* Properties of parseDate on its own *)

(* the month and day of the text in the year of the reference instant, or a
   year later when that is before the reference instant *)
NextOccurrence(dayOfYear, ref) ==
    LET inRefYear == (getFullYear(ref) * 365 + dayOfYear) * 24
    IN IF inRefYear >= ref THEN inRefYear ELSE inRefYear + 365 * 24

(* C12: for a text with a month and a day but no year, parseDate(text, ref)
   is the month and day in ref's year if that is not before ref, and in the
   year after ref's otherwise, whatever the wall clock of the call. *)
C12_YearlessRollsOnceFromReference ==
    (/\ callArgs # NULL
     /\ callArgs.op = "parseDate"
     /\ callArgs.dateStr.kind = "monthDay"
     /\ callResult # NULL)
    => callResult[1] = Some(NextOccurrence(callArgs.dateStr.dayOfYear,
                                           callArgs.referenceDate))

(* the number of days, from 1 to 7, from the day of ref to the next day after
   it that falls on the given weekday *)
DaysAhead(weekday, ref) ==
    CHOOSE d \in 1..7 : (ref \div DayLength + d) % 7 = weekday

(* the call of parseDate had a text that names a weekday *)
WeekdayCalled ==
    /\ callArgs # NULL
    /\ callArgs.op = "parseDate"
    /\ callArgs.dateStr.kind = "weekday"
    /\ callResult # NULL

(* C25: for a text that names a weekday, bare or after "this" or "every",
   parseDate gives the next day after the reference day that falls on that
   weekday, 1 to 7 days ahead; after "next" it gives the day one week after
   that one, 8 to 14 days ahead. *)
C25_WeekdayIsNextOccurrence ==
    WeekdayCalled =>
        /\ callResult[1] # NULL
        /\ LET ref == callArgs.referenceDate
               ahead == callResult[1][1] \div DayLength - ref \div DayLength
               bare == DaysAhead(callArgs.dateStr.weekday, ref)
           IN /\ getDay(callResult[1][1]) = callArgs.dateStr.weekday
              /\ IF callArgs.dateStr.qualifier = "next"
                 THEN ahead = bare + 7 /\ ahead \in 8..14
                 ELSE ahead = bare /\ ahead \in 1..7

(* "next friday" read on a Friday is the Friday two weeks ahead *)
C25_Witness ==
    /\ WeekdayCalled
    /\ callArgs.dateStr.qualifier = "next"
    /\ callArgs.dateStr.weekday = getDay(callArgs.referenceDate)
    /\ callResult[1] = Some(callArgs.referenceDate + 14 * DayLength)

----------------------------------------------------------------------------
(* Properties of the records a scrape drops and of the ids it lets through *)

(* the records of the scrape so far for which normalizeEvent returned null *)
DroppedRecords == {i \in DOMAIN outcomes : outcomes[i] = NULL}

(* C22: every raw record that fails to normalize causes exactly one log entry,
   and no record is normalized twice or queued again: the loop has been through
   each record once, and the logger holds as many entries as records were
   dropped. *)
C22_OneLogEntryPerDroppedRecord ==
    config # NULL =>
        /\ Len(outcomes) = processed
        /\ processed <= Len(rawEvents)
        /\ Len(scraped) + Len(warnings) = processed
        /\ Len(warnings) = Cardinality(DroppedRecords)
        /\ Len(logged) = Cardinality(DroppedRecords)

(* C26: the output of deduplicate, given events made by normalizeEvent, never
   holds two events with the same id. *)
C26_DeduplicatedIdsAreDistinct ==
    (config # NULL /\ ddStage = "once") =>
        \A i, j \in DOMAIN ddOutput :
            i # j => ddOutput[i].id # ddOutput[j].id

============================================================================
